---- MODULE Spec2Model ----
(***************************************************************************)
(* Status indicator of ghost-agent's web interface: the debounced state    *)
(* channels of interface/static/sphere.js (working, waiting, error) and    *)
(* the event handlers of interface/static/app.js that drive them.          *)
(*                                                                         *)
(* Everything runs on the browser's single event loop, so every handler    *)
(* and every timer callback is one atomic action.  Wall-clock time is the  *)
(* variable now (milliseconds); setTimeout records a deadline now + delay  *)
(* and a callback runs no earlier than its deadline, pending callbacks     *)
(* running by deadline and then by creation order.                         *)
(*                                                                         *)
(* The channel values are IEEE doubles in the source; the model keeps      *)
(* them as fixed-point integers with One standing for 1.0.                 *)
(***************************************************************************)
EXTENDS Integers, Sequences, FiniteSets, TLC

---------------------------------------------------------------------------
(* Bounds of the model *)

\* milliseconds of wall-clock time that pass in one AdvanceTime step
Step == 1000
\* AdvanceTime is disabled once now has reached MaxTime
MaxTime == 3000
\* at most MaxTimers calls of setTimeout in a behaviour
MaxTimers == 3
\* at most MaxPageTimers calls of setTimeout in a behaviour of Spec
MaxPageTimers == 4
\* at most MaxFrames animation frames in a behaviour
MaxFrames == 1
\* no heartbeat raises spikeStrength above MaxSpike
MaxSpike == 55000
\* the log lines of ClassifySpec have at most MaxLen characters
MaxLen == 2
\* at most MaxTicks animation frames in a behaviour of AnimSpec
MaxTicks == 2
\* no heartbeat of AnimSpec raises spikeStrength above MaxEnergy
MaxEnergy == 50000
\* no heartbeat of PulseSpec raises spikeStrength above MaxStack
MaxStack == 280000
\* at most MaxLoop animation frames in a behaviour of LoopSpec
MaxLoop == 1100
\* the distance from the target within which LoopSpec's channels must come
Epsilon == 5000
\* at most MaxColorTicks animation frames in a behaviour of ColorSpec
MaxColorTicks == 150
\* ColorSpec calls triggerNextColor every AdvanceEvery frames only
AdvanceEvery == 50
\* at most MaxAdvance calls of triggerNextColor in a behaviour of ColorSpec
MaxAdvance == 4
\* the events of ColorSpec stop once they have set MaxColorTimers timers
MaxColorTimers == 1
\* at most MaxCycle animation frames in a behaviour of CycleSpec
MaxCycle == 8000
\* at most MaxFerroTicks animation frames in a behaviour of FerroSpec
MaxFerroTicks == 2
\* no heartbeat of FerroSpec raises spikeStrength above MaxFerroSpike
MaxFerroSpike == 30000
\* the clock of QuiesceSpec runs to MaxQuiesceTime, and on while timers pend
MaxQuiesceTime == 2000
\* the events of QuiesceSpec set at most MaxQuiesceTimers timers, those of
\* the end of the request included
MaxQuiesceTimers == 6
\* no heartbeat of QuiesceSpec raises spikeStrength above MaxQuiesceSpike
MaxQuiesceSpike == 80000
\* at most MaxShaderTicks animation frames in a behaviour of ShaderSpec
MaxShaderTicks == 2
\* at most MaxRenders runs of the vertex shader in a behaviour of ShaderSpec
MaxRenders == 2

---------------------------------------------------------------------------
(* Program constants *)

\* fixed-point representation of 1.0 (targetWorkingState = 1.0)
One == 100000
\* the 0.5 threshold of setWorkingState / setWaitingState
Half == 50000
\* delay of the activation timers of setWorkingState / setWaitingState
ActivationDelay == 2000
\* delay of triggerSpike's reset timer
SpikeDuration == 2000
\* delay of app.js's workTimer (auto-idle after a Working icon)
WorkTimerDelay == 2000
\* delay of the planner monologue's hide timer
MonologueDelay == 2000
\* the margin 0.01 of isWaking
WakeMargin == 1000
\* the smoothing rates 0.003, 0.015, 0.01 and 0.02, in units of 1 / RateScale
RateScale == 1000
WakeRate == 3
SleepRate == 15
ErrorRate == 10
ColorRate == 20
\* spikeStrength: its initial value 0.2, the error preset 2.5 and the
\* magnitudes 0.3 and 0.05 of triggerPulse and triggerSmallPulse
InitialSpike == 20000
ErrorSpike == 250000
PulseSize == 30000
SmallPulseSize == 5000
\* the value of a timer handle that holds no timer (null / undefined)
NoTimer == 0

---------------------------------------------------------------------------
(* State *)

VARIABLES
    now,                 \* wall-clock time, ms
    time,                \* sphere.js time, in animation frames (0.01 each)
    nextId,              \* the id the next setTimeout returns
    timers,              \* pending timers, in creation order
    targetWorkingState, targetWaitingState, targetErrorState,
    workingState, waitingState, errorState,
    spikeStrength,       \* sphere.js: the amplitude of the deformation
    targetSpikeStrength, \* sphere.js: the value spikeStrength is drawn to
    workingTimeout, waitingTimeout,
    isProcessingRequest, \* app.js: the request lock
    workTimer,           \* app.js: handle of the auto-idle timer
    monologueTimeout,    \* app.js: handle of the monologue hide timer
    monologueVisible,    \* app.js: plannerMonologue has class 'visible'
    lastStep,            \* history: the operation of the last step
    reqWorking,          \* history: last request made on the working channel
    reqWaiting,          \* history: last request made on the waiting channel
    request,             \* app.js: sendMessage is suspended at its await
    requestSince,        \* history: when the request in flight was sent, or -1
    shown,               \* history: when the monologue was last shown, and whether in flight
    stimuli,             \* history: what the page has received so far
    logText,             \* the text handed to the classifier
    verdict,             \* what the classifier made of logText
    colorOffset,         \* sphere.js: the position in the palette
    targetColorOffset,   \* sphere.js: the value colorOffset is drawn to
    paletteColor,        \* sphere.js: the palette's colour at the position
    targetGlowColor,     \* sphere.js: the colour glowColor is drawn to
    glowColor,           \* sphere.js: the displayed colour (uColorGlow)
    uniforms,            \* material.uniforms, as the last frame has set them
    vDisplacement,       \* the vertex shader's result for the last vertex
    renderedWith,        \* history: the vertex, uniforms and result of each run
    page,                \* the script the page runs: app.js or app2.js
    targetWorking, targetError,      \* part_001: the targets
    ferroIsWorking,      \* part_001: isWorking
    isError,             \* part_001
    sharpness, targetSharpness, tremor, targetTremor     \* part_001

\* the monologue has not been shown yet
NotShown == [at |-> -1, inFlight |-> FALSE]

vars == <<now, time, nextId, timers,
          targetWorkingState, targetWaitingState, targetErrorState,
          workingState, waitingState, errorState,
          spikeStrength, targetSpikeStrength,
          workingTimeout, waitingTimeout,
          isProcessingRequest, workTimer, monologueTimeout, monologueVisible,
          lastStep, reqWorking, reqWaiting, request, requestSince, shown, stimuli,
          logText, verdict, colorOffset, targetColorOffset,
          paletteColor, targetGlowColor, glowColor,
          uniforms, vDisplacement, renderedWith,
          page, targetWorking, targetError, ferroIsWorking, isError,
          sharpness, targetSharpness, tremor, targetTremor>>

\* the colours of sphere.js
glow == <<paletteColor, targetGlowColor, glowColor>>

\* the vertex shader's input and output
shader == <<uniforms, vDisplacement, renderedWith>>

\* the state of part_001, which app2.js drives, and the script of the page
ferro == <<page, targetWorking, targetError, ferroIsWorking, isError,
           sharpness, targetSharpness, tremor, targetTremor>>

\* The part of the state the handlers read and write, as one record, so that
\* a handler is the composition of the calls it makes.
Cur ==
    [ nextId |-> nextId, timers |-> timers,
      targetWorkingState |-> targetWorkingState,
      targetWaitingState |-> targetWaitingState,
      targetErrorState |-> targetErrorState,
      spikeStrength |-> spikeStrength,
      targetColorOffset |-> targetColorOffset,
      workingTimeout |-> workingTimeout,
      waitingTimeout |-> waitingTimeout,
      isProcessingRequest |-> isProcessingRequest,
      workTimer |-> workTimer,
      monologueTimeout |-> monologueTimeout,
      monologueVisible |-> monologueVisible ]

Commit(m) ==
    /\ nextId' = m.nextId
    /\ timers' = m.timers
    /\ targetWorkingState' = m.targetWorkingState
    /\ targetWaitingState' = m.targetWaitingState
    /\ targetErrorState' = m.targetErrorState
    /\ spikeStrength' = m.spikeStrength
    /\ targetColorOffset' = m.targetColorOffset
    /\ workingTimeout' = m.workingTimeout
    /\ waitingTimeout' = m.waitingTimeout
    /\ isProcessingRequest' = m.isProcessingRequest
    /\ workTimer' = m.workTimer
    /\ monologueTimeout' = m.monologueTimeout
    /\ monologueVisible' = m.monologueVisible

---------------------------------------------------------------------------
(* The browser's timers *)

\* setTimeout(callback, delay): the returned handle is the m.nextId of before
setTimeout(m, callback, delay) ==
    [m EXCEPT !.timers = Append(@, [id |-> m.nextId, callback |-> callback,
                                    due |-> now + delay]),
              !.nextId = @ + 1]

\* clearTimeout(handle): a handle that names no pending timer changes nothing
clearTimeout(m, handle) ==
    [m EXCEPT !.timers = SelectSeq(@, LAMBDA t : t.id # handle)]

RemoveAt(s, i) == SubSeq(s, 1, i - 1) \o SubSeq(s, i + 1, Len(s))

\* the i-th pending timer may run: its deadline has passed and no other
\* pending timer has an earlier deadline, or the same one and was set before
Runnable(i) ==
    /\ timers[i].due <= now
    /\ \A j \in 1..Len(timers) :
         j # i => ~ \/ timers[j].due < timers[i].due
                    \/ (timers[j].due = timers[i].due /\ j < i)

Pending(callback) == { timers[i] : i \in { j \in 1..Len(timers) : timers[j].callback = callback } }

---------------------------------------------------------------------------
(* sphere.js: the state channels *)

\* faulty variant: the deactivation forgets the handle without cancelling the timer
setWorkingState_NoCancel(m, isWorking) ==
    IF isWorking
    THEN IF m.targetWorkingState < Half /\ m.workingTimeout = NoTimer
         THEN [setTimeout(m, "workingTimeout", ActivationDelay)
                 EXCEPT !.workingTimeout = m.nextId]
         ELSE m
    ELSE [m EXCEPT !.workingTimeout = NoTimer, !.targetWorkingState = 0]

\* faulty variant: a repeated activation request restarts the pending timer
setWorkingState_Restart(m, isWorking) ==
    IF isWorking
    THEN IF m.targetWorkingState < Half
         THEN [setTimeout(clearTimeout(m, m.workingTimeout),
                          "workingTimeout", ActivationDelay)
                 EXCEPT !.workingTimeout = m.nextId]
         ELSE m
    ELSE LET c == IF m.workingTimeout # NoTimer
                  THEN [clearTimeout(m, m.workingTimeout)
                          EXCEPT !.workingTimeout = NoTimer]
                  ELSE m
         IN  [c EXCEPT !.targetWorkingState = 0]

\* faulty variant: the activation timer is set with no delay
setWorkingState_NoDelay(m, isWorking) ==
    IF isWorking
    THEN IF m.targetWorkingState < Half /\ m.workingTimeout = NoTimer
         THEN [setTimeout(m, "workingTimeout", 0)
                 EXCEPT !.workingTimeout = m.nextId]
         ELSE m
    ELSE LET c == IF m.workingTimeout # NoTimer
                  THEN [clearTimeout(m, m.workingTimeout)
                          EXCEPT !.workingTimeout = NoTimer]
                  ELSE m
         IN  [c EXCEPT !.targetWorkingState = 0]

\* faulty variant: the activation request does not look at the target
setWorkingState_NoTargetTest(m, isWorking) ==
    IF isWorking
    THEN IF m.workingTimeout = NoTimer
         THEN [setTimeout(m, "workingTimeout", ActivationDelay)
                 EXCEPT !.workingTimeout = m.nextId]
         ELSE m
    ELSE LET c == IF m.workingTimeout # NoTimer
                  THEN [clearTimeout(m, m.workingTimeout)
                          EXCEPT !.workingTimeout = NoTimer]
                  ELSE m
         IN  [c EXCEPT !.targetWorkingState = 0]

setWorkingState(m, isWorking) ==
    IF isWorking
    THEN IF m.targetWorkingState < Half /\ m.workingTimeout = NoTimer
         THEN [setTimeout(m, "workingTimeout", ActivationDelay)
                 EXCEPT !.workingTimeout = m.nextId]
         ELSE m
    ELSE LET c == IF m.workingTimeout # NoTimer
                  THEN [clearTimeout(m, m.workingTimeout)
                          EXCEPT !.workingTimeout = NoTimer]
                  ELSE m
         IN  [c EXCEPT !.targetWorkingState = 0]

\* faulty variant: the callback does not clear the handle
workingTimeoutCallback_KeepsHandle(m) ==
    [m EXCEPT !.targetWorkingState = One]

\* the callback of the timer set by setWorkingState(true)
workingTimeoutCallback(m) ==
    [m EXCEPT !.targetWorkingState = One, !.workingTimeout = NoTimer]

\* faulty variant: the request sets the target at once, without a timer
setWaitingState_Immediate(m, isWaiting) ==
    [m EXCEPT !.targetWaitingState = IF isWaiting THEN One ELSE 0]

\* faulty variant: a deactivation request flips the target
setWaitingState_OffFlips(m, isWaiting) ==
    IF isWaiting
    THEN IF m.targetWaitingState < Half /\ m.waitingTimeout = NoTimer
         THEN [setTimeout(m, "waitingTimeout", ActivationDelay)
                 EXCEPT !.waitingTimeout = m.nextId]
         ELSE m
    ELSE LET c == IF m.waitingTimeout # NoTimer
                  THEN [clearTimeout(m, m.waitingTimeout)
                          EXCEPT !.waitingTimeout = NoTimer]
                  ELSE m
         IN  [c EXCEPT !.targetWaitingState = One - @]

setWaitingState(m, isWaiting) ==
    IF isWaiting
    THEN IF m.targetWaitingState < Half /\ m.waitingTimeout = NoTimer
         THEN [setTimeout(m, "waitingTimeout", ActivationDelay)
                 EXCEPT !.waitingTimeout = m.nextId]
         ELSE m
    ELSE LET c == IF m.waitingTimeout # NoTimer
                  THEN [clearTimeout(m, m.waitingTimeout)
                          EXCEPT !.waitingTimeout = NoTimer]
                  ELSE m
         IN  [c EXCEPT !.targetWaitingState = 0]

\* the callback of the timer set by setWaitingState(true)
waitingTimeoutCallback(m) ==
    [m EXCEPT !.targetWaitingState = One, !.waitingTimeout = NoTimer]

\* faulty variant: the error pulse takes the working channel down
triggerSpike_StopsWork(m) ==
    setTimeout([setWorkingState(m, FALSE) EXCEPT !.targetErrorState = One],
               "spikeReset", SpikeDuration)

\* the error pulse: the reset timer's handle is not kept
triggerSpike(m) ==
    setTimeout([m EXCEPT !.targetErrorState = One], "spikeReset", SpikeDuration)

\* the callback of the timer set by triggerSpike
spikeResetCallback(m) ==
    [m EXCEPT !.targetErrorState = 0]

\* updateSphereColor(colorHex): its body is commented out
updateSphereColor(m) == m

\* faulty variant: the step is half an entry
triggerNextColor_HalfStep(m) ==
    [m EXCEPT !.targetColorOffset = @ + Half]

\* triggerNextColor(): targetColorOffset += 1.0
triggerNextColor(m) ==
    [m EXCEPT !.targetColorOffset = @ + One]

\* faulty variant: the heartbeat assigns spikeStrength instead of adding to it
triggerPulse_Assigns(m) == [m EXCEPT !.spikeStrength = InitialSpike + PulseSize]

\* the heartbeat of a log event; the colour argument is not used
triggerPulse(m) == [m EXCEPT !.spikeStrength = @ + PulseSize]

\* faulty variant: the small heartbeat advances the colour as well
triggerSmallPulse_NextColor(m) ==
    [m EXCEPT !.spikeStrength = @ + SmallPulseSize,
              !.targetColorOffset = @ + One]

\* the heartbeat of a planner monologue line
triggerSmallPulse(m) == [m EXCEPT !.spikeStrength = @ + SmallPulseSize]

\* faulty variant: the step leads away from the target
Smooth_Away(actual, target, rate) ==
    actual - ((target - actual) * rate) \div RateScale

\* faulty variant: the step goes beyond the target
Smooth_Overshoot(actual, target, rate) ==
    actual + ((target - actual) * (RateScale + rate)) \div RateScale

\* one smoothing step: actual += (target - actual) * rate
Smooth(actual, target, rate) ==
    actual + ((target - actual) * rate) \div RateScale

\* faulty variant: only the working channel is looked at
isWaking_WorkingOnly == targetWorkingState > workingState + WakeMargin

isWaking ==
    \/ targetWorkingState > workingState + WakeMargin
    \/ targetWaitingState > waitingState + WakeMargin

transitionSpeed == IF isWaking THEN WakeRate ELSE SleepRate

\* Math.sin, on thousandths: the angle is reduced to [-pi/2, pi/2] and the
\* series x - x^3/3! + x^5/5! - x^7/7! is summed; the result is in
\* -Thousand..Thousand
Thousand == 1000
Pi == 3142
Clamp(x, lo, hi) == IF x < lo THEN lo ELSE IF x > hi THEN hi ELSE x

Sin(angle) ==
    LET r == angle % (2 * Pi)
        x == IF r > (3 * Pi) \div 2 THEN r - 2 * Pi
             ELSE IF r > Pi \div 2 THEN Pi - r
             ELSE r
        x2 == (x * x) \div Thousand
        x3 == (x2 * x) \div Thousand
        x5 == (x3 * x2) \div Thousand
        x7 == (x5 * x2) \div Thousand
    IN  Clamp(x - x3 \div 6 + x5 \div 120 - x7 \div 5040, - Thousand, Thousand)

\* the parameters of the idle breathing, in thousandths: freq = 1.5 +
\* activityLevel * 3.5, baseAmp = 0.15 + activityLevel * 0.25 and ampVar =
\* 0.05 + activityLevel * 0.05
FreqIdle == 1500
FreqGain == 3500
BaseAmpIdle == 150
BaseAmpGain == 250
AmpVarIdle == 50
AmpVarGain == 50
\* time advances by 0.01 a frame: FramesPerUnit frames make 1.0
FramesPerUnit == 100

Max(a, b) == IF a >= b THEN a ELSE b

activityLevel == Max(workingState, waitingState)

\* the value of a parameter in thousandths, in the scale of One
Scaled(thousandths) == thousandths * (One \div Thousand)

\* faulty variant: the breathing swings around 0
NormalSpikeTarget_NoBase(frame) ==
    LET freq == FreqIdle + (activityLevel * FreqGain) \div One
        ampVar == Scaled(AmpVarIdle) + (activityLevel * AmpVarGain) \div Thousand
    IN  (Sin((frame * freq) \div FramesPerUnit) * ampVar) \div Thousand

\* the value animate gives targetSpikeStrength in the frame that brings time
\* to frame: the error preset while the error target is up, and else the
\* breathing of the current activity level
NormalSpikeTarget(frame) ==
    LET freq == FreqIdle + (activityLevel * FreqGain) \div One
        baseAmp == Scaled(BaseAmpIdle) + (activityLevel * BaseAmpGain) \div Thousand
        ampVar == Scaled(AmpVarIdle) + (activityLevel * AmpVarGain) \div Thousand
    IN  baseAmp + (Sin((frame * freq) \div FramesPerUnit) * ampVar) \div Thousand

\* faulty variant: the error preset is mixed in by errorState
SpikeTarget_Mixed(frame) ==
    NormalSpikeTarget(frame)
      + ((ErrorSpike - NormalSpikeTarget(frame)) * (errorState \div Thousand))
            \div (One \div Thousand)

SpikeTarget(frame) ==
    IF targetErrorState > Half THEN ErrorSpike ELSE NormalSpikeTarget(frame)

---------------------------------------------------------------------------
(* sphere.js: the colours.  A colour is its three channels <<r, g, b>>, each *)
(* in units of 1/ColorUnit of a step of the hexadecimal notation.           *)

ColorUnit == 1000

Color(r, g, b) == << r * ColorUnit, g * ColorUnit, b * ColorUnit >>

\* new THREE.Color() is white
White == Color(255, 255, 255)

\* 0x2a003b, the start of glowColor and targetGlowColor
InitialGlow == Color(42, 0, 59)

\* 0x003b0c, 0x000c3b, 0x2a003b, 0x3b0000
palette == << Color(0, 59, 12), Color(0, 12, 59), Color(42, 0, 59),
              Color(59, 0, 0) >>

\* 0.05 of a palette entry per unit of time, in thousandths
CycleSpeed == 50

\* the rates of the two stages of the colour's smoothing
TargetGlowRate == 50
GlowRate == 10

\* color.lerp(target, rate): every channel moves rate of the way
Lerp(color, target, rate) ==
    [ i \in 1..3 |-> Smooth(color[i], target[i], rate) ]

\* faulty variant: the palette turns at half the speed
effectiveIndex_HalfSpeed(frame, offset) ==
    ((frame * CycleSpeed * (One \div Thousand)) \div (2 * FramesPerUnit)
         + offset)
        % (Len(palette) * One)

\* (time * cycleSpeed + colorOffset) % palette.length, in units of 1/One
effectiveIndex(frame, offset) ==
    ((frame * CycleSpeed * (One \div Thousand)) \div FramesPerUnit + offset)
        % (Len(palette) * One)

\* Math.floor(effectiveIndex)
index1(frame, offset) == effectiveIndex(frame, offset) \div One

index2(frame, offset) == (index1(frame, offset) + 1) % Len(palette)

\* faulty variant: alpha is effectiveIndex itself, not its fraction
PaletteAt_WholeAlpha(frame, offset) ==
    LET alpha == effectiveIndex(frame, offset) \div (One \div Thousand)
    IN  Lerp(palette[index1(frame, offset) + 1],
             palette[index2(frame, offset) + 1], alpha)

\* palette[index1] lerped to palette[index2] by alpha, the fraction of
\* effectiveIndex (taken in thousandths)
PaletteAt(frame, offset) ==
    LET alpha == (effectiveIndex(frame, offset) % One) \div (One \div Thousand)
    IN  Lerp(palette[index1(frame, offset) + 1],
             palette[index2(frame, offset) + 1], alpha)

\* the colours after a frame: paletteColor is set, targetGlowColor follows
\* it and glowColor follows targetGlowColor
FrameColors(before, frame, offset) ==
    LET p == PaletteAt(frame, offset)
        t == Lerp(before.target, p, TargetGlowRate)
    IN  [ palette |-> p, target |-> t,
          glow |-> Lerp(before.glow, t, GlowRate) ]

\* the colours the frame numbered frame leaves
Colors(frame) ==
    FrameColors([ palette |-> paletteColor, target |-> targetGlowColor,
                  glow |-> glowColor ],
                frame, Smooth(colorOffset, targetColorOffset, ColorRate))

\* the colours after the n frames that follow the frame numbered from, on a
\* page on which the colour never advanced
RECURSIVE IdleFrames(_, _, _)
IdleFrames(before, from, n) ==
    IF n = 0 THEN before
    ELSE IF n = 1 THEN FrameColors(before, from + 1, 0)
    ELSE LET half == n \div 2
             middle == IdleFrames(before, from, half)
         IN  \* the first half is computed before the second half starts
             IF middle.palette # White
             THEN IdleFrames(middle, from + half, n - half)
             ELSE middle

\* the colours n frames after the page has loaded
IdleColors(n) ==
    IdleFrames([ palette |-> White, target |-> InitialGlow,
                 glow |-> InitialGlow ], 0, n)


---------------------------------------------------------------------------
(* The vertex shader of sphere.js (lines 28-139). Vectors are triples,      *)
(* coordinates and noise values are in thousandths; uTime counts frames and *)
(* the other uniforms are in units of 1/One, as the variables they copy.    *)

\* GLSL's dot, on thousandths
Dot(a, b) == (a[1] * b[1] + a[2] * b[2] + a[3] * b[3]) \div Thousand

\* GLSL's step(edge, x)
StepAt(edge, x) == IF x < edge THEN 0 ELSE 1

Min(a, b) == IF a <= b THEN a ELSE b

Abs(x) == IF x < 0 THEN -x ELSE x

\* x - floor(x * (1.0 / 289.0)) * 289.0, on whole numbers
mod289(x) == x - (x \div 289) * 289

permute(x) == mod289(((x * 34) + 1) * x)

taylorInvSqrt(r) == 1793 - (854 * r) \div Thousand

\* The intermediate values of snoise are bound one at a time, each to the
\* value of the GLSL variable of the same name.
snoise(v) ==
    LET the(S) == CHOOSE r \in S : TRUE
        Cx == Thousand \div 6
        Cy == Thousand \div 3
        \* i = floor(v + dot(v, C.yyy)), whole numbers
        floorSkewed ==
            LET skew == (v[1] + v[2] + v[3]) \div 3
            IN  [k \in 1..3 |-> (v[k] + skew) \div Thousand]
        \* x0 = v - i + dot(i, C.xxx)
        firstCorner(i) ==
            LET unskew == ((i[1] + i[2] + i[3]) * Thousand) \div 6
            IN  [k \in 1..3 |-> v[k] - i[k] * Thousand + unskew]
        \* g = step(x0.yzx, x0.xyz)
        rank(x0) ==
            <<StepAt(x0[2], x0[1]), StepAt(x0[3], x0[2]), StepAt(x0[1], x0[3])>>
        \* i1 = min(g.xyz, l.zxy) and i2 = max(g.xyz, l.zxy), with l = 1.0 - g
        i1(g) == <<Min(g[1], 1 - g[3]), Min(g[2], 1 - g[1]), Min(g[3], 1 - g[2])>>
        i2(g) == <<Max(g[1], 1 - g[3]), Max(g[2], 1 - g[1]), Max(g[3], 1 - g[2])>>
        \* x0, x1, x2, x3
        corners(x0, g) ==
            << x0,
               [k \in 1..3 |-> x0[k] - i1(g)[k] * Thousand + Cx],
               [k \in 1..3 |-> x0[k] - i2(g)[k] * Thousand + Cy],
               [k \in 1..3 |-> x0[k] - Thousand \div 2] >>
        offsets(g) == <<(<<0, 0, 0>>), i1(g), i2(g), <<1, 1, 1>>>>
        \* one component of p = permute(permute(permute(i.z + ...) + i.y + ...)
        \* + i.x + ...), after i = mod289(i)
        hash(i, o) ==
            permute(permute(permute(mod289(i[3]) + o[3])
                                + mod289(i[2]) + o[2])
                        + mod289(i[1]) + o[1])
        \* n_ = 1/7, ns = n_ * D.wyz - D.xzx = (2/7, -13/14, 1/7); x, y and h
        \* in fourteenths, which are exact
        lattice(p) ==
            LET j == p - 49 * (p \div 49)
                x_ == j \div 7
                y_ == j - 7 * x_
                x == x_ * 4 - 13
                y == y_ * 4 - 13
            IN  <<x, y, 14 - Abs(x) - Abs(y)>>
        \* floor(b) * 2.0 + 1.0
        s(b) == (b \div 14) * 2 + 1
        \* the gradient of a corner, in thousandths
        gradient(xyh) ==
            LET sh == - StepAt(xyh[3], 0)
            IN  <<((xyh[1] + s(xyh[1]) * sh * 14) * Thousand) \div 14,
                  ((xyh[2] + s(xyh[2]) * sh * 14) * Thousand) \div 14,
                  (xyh[3] * Thousand) \div 14>>
        normalised(grad) ==
            the({ [k \in 1..3 |-> (grad[k] * norm) \div Thousand] :
                  norm \in { taylorInvSqrt(Dot(grad, grad)) } })
        \* m * m in millionths, m*m * m*m in hundred-thousandths
        fourth(m) == (((m * m) \div 10) * ((m * m) \div 10)) \div One
        \* the contribution of a corner x to the sum of the last line, in
        \* units of 1/(One * Thousand)
        term(x, pn) ==
            42 * fourth(Max(600 - Dot(x, x), 0)) * Dot(pn, x)
        contribution(i, x, o) ==
            the({ term(x, pn) :
                  pn \in { the({ normalised(grad) :
                                 grad \in { the({ gradient(xyh) :
                                     xyh \in { lattice(hash(i, o)) } }) } }) } })
        sum(i, corner, offset) ==
            contribution(i, corner[1], offset[1])
                + contribution(i, corner[2], offset[2])
                + contribution(i, corner[3], offset[3])
                + contribution(i, corner[4], offset[4])
        inCell(i, x0) ==
            the({ the({ the({ sum(i, corner, offset) :
                              corner \in { corners(x0, g) } }) :
                        offset \in { offsets(g) } }) :
                  g \in { rank(x0) } })
    IN  the({ the({ inCell(i, x0) : x0 \in { firstCorner(i) } }) :
              i \in { floorSkewed } }) \div One

fbm(x) ==
    LET shift == 100 * Thousand
        next(y) == [k \in 1..3 |-> y[k] * 2 + shift]
        octaves(y0, y1, y2, y3) ==
            snoise(y0) \div 2 + snoise(y1) \div 4 + snoise(y2) \div 8
                + snoise(y3) \div 16
    IN  CHOOSE r \in { octaves(y0, next(y0), next(next(y0)),
                              next(next(next(y0)))) : y0 \in { x } } : TRUE

\* lines 98-108 of getDisplacement: d, before it is scaled
mixedNoise(p, u) ==
    LET t == (u.uTime * Thousand) \div FramesPerUnit
        rp == <<p[1] + t \div 10, p[2] + (t * 15) \div 100, p[3] - t \div 20>>
        slow == [k \in 1..3 |-> (rp[k] * 12) \div 10]
        fine == [k \in 1..3 |-> (rp[k] * 25) \div 10 - t \div 5]
        fast == [k \in 1..3 |-> rp[k] * 3 + t \div 2]
        activity == Max(u.uWorkingState, u.uWaitingState)
        mix(idleNoise, activeNoise) ==
            idleNoise + ((activeNoise - idleNoise) * activity) \div One
    IN  CHOOSE r \in
            { mix(idleNoise, (fbm(fast) * 800) \div Thousand) :
              idleNoise \in { (fbm(slow) * 450) \div Thousand
                                 + (snoise(fine) * 170) \div Thousand } } : TRUE

\* faulty variant: scales by the page's variable, not by the uniform
getDisplacement_LiveEnergy(p, u) ==
    (mixedNoise(p, u) * spikeStrength) \div Thousand

\* the displacement of vertex p under the uniforms u, in units of 1/One
getDisplacement(p, u) ==
    (mixedNoise(p, u) * u.uSpikeStrength) \div Thousand

---------------------------------------------------------------------------
(* app.js: classification of a log line *)

\* A text is a sequence of characters.  The characters of the model: the
\* code points of the icon tables by name, "VS16" for the variation selector
\* U+FE0F, "party" for a pictograph that is in no table, "a" for a letter,
\* ":" for a colon and "PM" for the phrase PLANNER MONOLOGUE.
ExtendedPictographic ==
    { "brain", "magnifier", "gear", "hammer", "zap", "bulb", "satellite",
      "floppy", "shield", "key", "unlock", "rocket", "crystal", "dna",
      "microscope", "telescope", "stethoscope", "puzzle", "chartUp",
      "barChart", "clipboard", "check", "cross", "stop", "sleeping", "zzz",
      "warning", "fire", "wrench", "party" }

WORKING_ICONS ==
    { <<"brain">>, <<"magnifier">>, <<"gear", "VS16">>, <<"hammer">>,
      <<"zap">>, <<"bulb">>, <<"satellite">>, <<"floppy">>,
      <<"shield", "VS16">>, <<"key">>, <<"unlock">>, <<"rocket">>,
      <<"crystal">>, <<"dna">>, <<"microscope">>, <<"telescope">>,
      <<"stethoscope">>, <<"puzzle">>, <<"chartUp">>, <<"barChart">>,
      <<"clipboard">> }

IDLE_ICONS == { <<"check">>, <<"cross">>, <<"stop">>, <<"sleeping">>, <<"zzz">> }

\* the list of line 48: icons that raise the error pulse
SpikeIcons == { <<"cross">>, <<"stop">>, <<"warning", "VS16">>, <<"fire">> }

\* the first character of the line that is Extended_Pictographic, as a
\* one-character string; <<>> stands for null
extractIcon(logLine) ==
    LET hits == { i \in 1..Len(logLine) : logLine[i] \in ExtendedPictographic }
    IN  IF hits = {} THEN <<>>
        ELSE LET first == CHOOSE i \in hits : \A j \in hits : i <= j
             IN  <<logLine[first]>>

\* the accent colour of an icon; getIconColor(null) is the default too
getIconColor(icon) ==
    IF icon \in { <<"brain">>, <<"bulb">>, <<"crystal">>, <<"dna">>,
                  <<"puzzle">> }
    THEN "#00f3ff"
    ELSE IF icon \in { <<"check">>, <<"wrench">>, <<"hammer">>,
                       <<"gear", "VS16">>, <<"shield", "VS16">>,
                       <<"unlock">> }
    THEN "#00ff9d"
    ELSE IF icon \in { <<"magnifier">>, <<"floppy">>, <<"chartUp">>,
                       <<"barChart">>, <<"clipboard">>, <<"key">> }
    THEN "#ffaa00"
    ELSE IF icon \in { <<"satellite">>, <<"zap">>, <<"rocket">>,
                       <<"telescope">> }
    THEN "#1e90ff"
    ELSE IF icon \in { <<"cross">>, <<"stop">>, <<"warning", "VS16">>,
                       <<"fire">> }
    THEN "#ff2a2a"
    ELSE IF icon \in { <<"sleeping">>, <<"zzz">>, <<"stethoscope">>,
                       <<"microscope">> }
    THEN "#ffffff"
    ELSE "#bd00ff"

\* the branch updateStateFromIcon takes for an icon
stateClass(icon) ==
    IF icon \in WORKING_ICONS THEN "Working"
    ELSE IF icon \in IDLE_ICONS THEN "Idle"
    ELSE "Neutral"

\* what ws.onmessage derives from the text of a log event: the icon, the
\* colour of the heartbeat, the branch of updateStateFromIcon and whether
\* the error pulse is raised for the icon
classify(content) ==
    LET icon == extractIcon(content)
    IN  [ icon |-> icon,
          color |-> getIconColor(icon),
          class |-> IF icon # <<>> THEN stateClass(icon) ELSE "Neutral",
          spike |-> icon # <<>> /\ icon \in SpikeIcons ]

\* the verdict before the classifier has run
Unclassified ==
    [icon |-> <<>>, color |-> "", class |-> "", spike |-> FALSE]

\* content.includes("PLANNER MONOLOGUE")
isMonologue(content) == \E i \in 1..Len(content) : content[i] = "PM"

\* content.match(/PLANNER MONOLOGUE\s*:\s*(.*)/) with a non-empty group 1
plannerMatch(content) ==
    \E i \in 1..Len(content) :
        /\ content[i] = "PM"
        /\ i + 2 <= Len(content)
        /\ content[i + 1] = ":"

---------------------------------------------------------------------------
(* app.js: handlers *)

\* faulty variant: the lock is not consulted
updateStateFromIcon_NoLock(m, icon) ==
    IF icon \in WORKING_ICONS
    THEN LET a == setWorkingState(m, TRUE)
             b == clearTimeout(a, a.workTimer)
         IN  [setTimeout(b, "workTimer", WorkTimerDelay)
                EXCEPT !.workTimer = b.nextId]
    ELSE IF icon \in IDLE_ICONS
    THEN setWorkingState(m, FALSE)
    ELSE m

\* faulty variant: a working line sets no auto-idle timer
updateStateFromIcon_NoAutoIdle(m, icon) ==
    IF m.isProcessingRequest THEN m
    ELSE IF icon \in WORKING_ICONS
    THEN setWorkingState(m, TRUE)
    ELSE IF icon \in IDLE_ICONS
    THEN setWorkingState(m, FALSE)
    ELSE m

updateStateFromIcon(m, icon) ==
    IF m.isProcessingRequest THEN m
    ELSE IF icon \in WORKING_ICONS
    THEN LET a == setWorkingState(m, TRUE)
             b == clearTimeout(a, a.workTimer)
         IN  [setTimeout(b, "workTimer", WorkTimerDelay)
                EXCEPT !.workTimer = b.nextId]
    ELSE IF icon \in IDLE_ICONS
    THEN setWorkingState(m, FALSE)
    ELSE m

\* faulty variant: the callback does not test the lock
workTimerCallback_NoLockTest(m) == setWorkingState(m, FALSE)

\* the callback of workTimer
workTimerCallback(m) ==
    IF ~ m.isProcessingRequest THEN setWorkingState(m, FALSE) ELSE m

showPlannerMonologue(m) ==
    LET a == [m EXCEPT !.monologueVisible = TRUE]
        b == clearTimeout(a, a.monologueTimeout)
    IN  IF ~ b.isProcessingRequest
        THEN [setTimeout(b, "hidePlannerMonologue", MonologueDelay)
                EXCEPT !.monologueTimeout = b.nextId]
        ELSE b

hidePlannerMonologue(m) == [m EXCEPT !.monologueVisible = FALSE]

\* faulty variant: a line without an icon gets no heartbeat
onmessage_IconOnly(m, frame) ==
    IF ~ frame.json THEN m
    ELSE IF frame.type # "log" THEN m
    ELSE IF frame.content.kind # "string" THEN m
    ELSE LET content == frame.content.text
             icon == extractIcon(content)
             h == IF isMonologue(content)
                  THEN triggerSmallPulse(m) ELSE triggerPulse(m)
             a == IF icon # <<>>
                  THEN LET u == updateStateFromIcon(h, icon)
                       IN  IF icon \in SpikeIcons THEN triggerSpike(u) ELSE u
                  ELSE m
             b == IF frame.is_error THEN triggerSpike(a) ELSE a
         IN  IF plannerMatch(content) THEN showPlannerMonologue(b) ELSE b

\* A websocket frame: json says whether event.data parses; content.kind is
\* "string", "missing" (no content member) or "number" (not a string).
\* An exception anywhere in the handler is caught by the handler's catch and
\* ends it with the changes made so far.
onmessage(m, frame) ==
    IF ~ frame.json THEN m
    ELSE IF frame.type # "log" THEN m
    ELSE IF frame.content.kind # "string" THEN m  \* extractIcon throws
    ELSE LET content == frame.content.text
             icon == extractIcon(content)
             h == IF isMonologue(content)
                  THEN triggerSmallPulse(m) ELSE triggerPulse(m)
             a == IF icon # <<>>
                  THEN LET u == updateStateFromIcon(h, icon)
                       IN  IF icon \in SpikeIcons THEN triggerSpike(u) ELSE u
                  ELSE h
             b == IF frame.is_error THEN triggerSpike(a) ELSE a
         IN  IF plannerMatch(content) THEN showPlannerMonologue(b) ELSE b

\* faulty variant: the waiting channel is asked first
sendMessageStart_WaitingFirst(m, text) ==
    IF text = "" \/ m.isProcessingRequest THEN m
    ELSE IF text = "/clear" THEN m
    ELSE setWorkingState(
             setWaitingState([m EXCEPT !.isProcessingRequest = TRUE], TRUE),
             TRUE)

\* faulty variant: the lock is taken before the text is looked at
sendMessageStart_ClearLocks(m, text) ==
    IF text = "" \/ m.isProcessingRequest THEN m
    ELSE setWaitingState(
             setWorkingState([m EXCEPT !.isProcessingRequest = TRUE], TRUE),
             TRUE)

\* sendMessage up to its await; text is the trimmed input
sendMessageStart(m, text) ==
    IF text = "" \/ m.isProcessingRequest THEN m
    ELSE IF text = "/clear" THEN m
    ELSE setWaitingState(
             setWorkingState([m EXCEPT !.isProcessingRequest = TRUE], TRUE),
             TRUE)

\* faulty variant: the cleanup is at the end of the try block, which an
\* exception skips
sendMessageEnd_CleanupInTry(m, outcome) ==
    LET a == IF outcome = "reply" THEN m ELSE triggerSpike(m)
        b == [a EXCEPT !.isProcessingRequest = FALSE]
        c == setWaitingState(setWorkingState(b, FALSE), FALSE)
    IN  IF outcome = "exception" THEN a
        ELSE [setTimeout(c, "hidePlannerMonologue", MonologueDelay)
                EXCEPT !.monologueTimeout = c.nextId]

\* sendMessage from the await on: outcome is "reply", "error" (the reply
\* carries an error member) or "exception" (fetch or json() rejects)
sendMessageEnd(m, outcome) ==
    LET a == IF outcome = "reply" THEN m ELSE triggerSpike(m)
        b == [a EXCEPT !.isProcessingRequest = FALSE]
        c == setWaitingState(setWorkingState(b, FALSE), FALSE)
    IN  [setTimeout(c, "hidePlannerMonologue", MonologueDelay)
           EXCEPT !.monologueTimeout = c.nextId]

---------------------------------------------------------------------------
(* Initial state: the module-level initialisers of sphere.js and app.js *)

\* no vertex has been through the shader yet
NothingRendered ==
    /\ vDisplacement = 0
    /\ renderedWith = << >>

\* part_001's variables as they are declared (lines 7-17)
FerroLoaded ==
    /\ targetWorking = 0
    /\ targetError = 0
    /\ ferroIsWorking = 0
    /\ isError = 0
    /\ sharpness = One
    /\ targetSharpness = One
    /\ tremor = 0
    /\ targetTremor = 0

PageLoaded ==
    /\ now = 0
    /\ time = 0
    /\ nextId = 1
    /\ timers = <<>>
    /\ targetWorkingState = 0
    /\ targetWaitingState = 0
    /\ targetErrorState = 0
    /\ workingState = 0
    /\ waitingState = 0
    /\ errorState = 0
    /\ spikeStrength = InitialSpike
    /\ targetSpikeStrength = InitialSpike
    /\ colorOffset = 0
    /\ targetColorOffset = 0
    /\ paletteColor = White
    /\ targetGlowColor = InitialGlow
    /\ glowColor = InitialGlow
    /\ uniforms = [ uTime |-> 0, uSpikeStrength |-> InitialSpike,
                    uWorkingState |-> 0, uWaitingState |-> 0,
                    uErrorState |-> 0 ]
    /\ NothingRendered
    /\ page = "app.js"
    /\ FerroLoaded
    /\ workingTimeout = NoTimer
    /\ waitingTimeout = NoTimer
    /\ isProcessingRequest = FALSE
    /\ workTimer = NoTimer
    /\ monologueTimeout = NoTimer
    /\ monologueVisible = FALSE
    /\ lastStep = [op |-> "-", arg |-> FALSE]
    /\ reqWorking = [last |-> "none", cancelled |-> -1]
    /\ reqWaiting = [last |-> "none", cancelled |-> -1]
    /\ request = "none"
    /\ requestSince = -1
    /\ shown = NotShown
    /\ stimuli = "none"

Init ==
    /\ PageLoaded
    /\ logText = <<>>
    /\ verdict = Unclassified

\* a handler runs only while the behaviour's budget of timers allows it, and
\* if it gives a heartbeat, only while spikeStrength stays at or below MaxSpike
WithinBudget(m) ==
    /\ m.nextId <= MaxTimers + 1
    /\ m.spikeStrength = spikeStrength \/ m.spikeStrength <= MaxSpike

\* the same for the handlers of app.js, which set up to five timers for one
\* request: two at its start, one with the error spike, one at its end
PageBudget(m) ==
    /\ m.nextId <= MaxPageTimers + 1
    /\ m.spikeStrength = spikeStrength \/ m.spikeStrength <= MaxSpike

\* history: the call or event of this step, or none of interest
\* history of the requests made on a channel: the last request, and the
\* deadline of the activation timer that a deactivation has cancelled since
\* the last activation request (-1 when it cancelled none)
Requested(req, handle, on) ==
    IF on THEN [last |-> "on", cancelled |-> -1]
    ELSE [last |-> "off",
          cancelled |-> IF handle # NoTimer
                        THEN (CHOOSE t \in {timers[i] : i \in 1..Len(timers)} :
                                  t.id = handle).due
                        ELSE IF req.last = "off" THEN req.cancelled ELSE -1]

Step_(op, arg) == lastStep' = [op |-> op, arg |-> arg]
Quiet == Step_("-", FALSE)

---------------------------------------------------------------------------
(* Steps common to both specifications *)

\* wall-clock time passes; callbacks that are due run first
TimePasses ==
    /\ \A i \in 1..Len(timers) : timers[i].due > now
    /\ now' = now + Step
    /\ Quiet
    /\ UNCHANGED <<ferro, shader, glow, time, nextId, timers,
                   targetWorkingState, targetWaitingState, targetErrorState,
                   workingState, waitingState, errorState,
                   spikeStrength, targetSpikeStrength, logText, verdict, colorOffset, targetColorOffset,
                   workingTimeout, waitingTimeout, isProcessingRequest,
                   workTimer, monologueTimeout, monologueVisible,
                   reqWorking, reqWaiting, request, requestSince, shown, stimuli>>

AdvanceTime == now < MaxTime /\ TimePasses

\* the i-th pending timer leaves the list and its callback runs
Fires(i, callback, after) ==
    /\ i \in 1..Len(timers)
    /\ timers[i].callback = callback
    /\ Runnable(i)
    /\ Commit(after)
    /\ Quiet
    /\ UNCHANGED <<ferro, shader, glow, targetSpikeStrength, logText, verdict, colorOffset, now, time, workingState, waitingState, errorState,
                   reqWorking, reqWaiting, request, requestSince, shown, stimuli>>

Popped(i) == [Cur EXCEPT !.timers = RemoveAt(timers, i)]

WorkingTimeoutFires ==
    \E i \in 1..Len(timers) :
        Fires(i, "workingTimeout", workingTimeoutCallback(Popped(i)))

WaitingTimeoutFires ==
    \E i \in 1..Len(timers) :
        Fires(i, "waitingTimeout", waitingTimeoutCallback(Popped(i)))

SpikeResetFires ==
    \E i \in 1..Len(timers) :
        Fires(i, "spikeReset", spikeResetCallback(Popped(i)))

WorkTimerFires ==
    \E i \in 1..Len(timers) :
        Fires(i, "workTimer", workTimerCallback(Popped(i)))

HideMonologueFires ==
    \E i \in 1..Len(timers) :
        Fires(i, "hidePlannerMonologue", hidePlannerMonologue(Popped(i)))

\* faulty variant: the frame assigns errorState its target
animate_SnapError ==
    /\ time' = time + 1
    /\ colorOffset' = Smooth(colorOffset, targetColorOffset, ColorRate)
    /\ paletteColor' = Colors(time + 1).palette
    /\ targetGlowColor' = Colors(time + 1).target
    /\ glowColor' = Colors(time + 1).glow
    /\ targetSpikeStrength' = SpikeTarget(time + 1)
    /\ spikeStrength' =
           Smooth(spikeStrength, SpikeTarget(time + 1), transitionSpeed)
    /\ workingState' = Smooth(workingState, targetWorkingState, transitionSpeed)
    /\ waitingState' = Smooth(waitingState, targetWaitingState, transitionSpeed)
    /\ errorState' = targetErrorState
    /\ uniforms' = [ uTime |-> time', uSpikeStrength |-> spikeStrength',
                      uWorkingState |-> workingState',
                      uWaitingState |-> waitingState',
                      uErrorState |-> errorState' ]
    /\ Quiet
    /\ UNCHANGED <<ferro, vDisplacement, renderedWith, now, nextId, timers,
                   targetWorkingState, targetWaitingState, targetErrorState,
                   workingTimeout, waitingTimeout, isProcessingRequest,
                   workTimer, monologueTimeout, monologueVisible,
                   reqWorking, reqWaiting, request, requestSince, shown, stimuli,
                   logText, verdict, targetColorOffset>>

\* one animation frame: the energy target is set and the colour offset is
\* smoothed, then the energy and the three channels are smoothed
animate ==
    /\ time' = time + 1
    /\ colorOffset' = Smooth(colorOffset, targetColorOffset, ColorRate)
    /\ paletteColor' = Colors(time + 1).palette
    /\ targetGlowColor' = Colors(time + 1).target
    /\ glowColor' = Colors(time + 1).glow
    /\ targetSpikeStrength' = SpikeTarget(time + 1)
    /\ spikeStrength' =
           Smooth(spikeStrength, SpikeTarget(time + 1), transitionSpeed)
    /\ workingState' = Smooth(workingState, targetWorkingState, transitionSpeed)
    /\ waitingState' = Smooth(waitingState, targetWaitingState, transitionSpeed)
    /\ errorState' = Smooth(errorState, targetErrorState, ErrorRate)
    /\ uniforms' = [ uTime |-> time', uSpikeStrength |-> spikeStrength',
                      uWorkingState |-> workingState',
                      uWaitingState |-> waitingState',
                      uErrorState |-> errorState' ]
    /\ Quiet
    /\ UNCHANGED <<ferro, vDisplacement, renderedWith, now, nextId, timers,
                   targetWorkingState, targetWaitingState, targetErrorState,
                   workingTimeout, waitingTimeout, isProcessingRequest,
                   workTimer, monologueTimeout, monologueVisible,
                   reqWorking, reqWaiting, request, requestSince, shown, stimuli,
                   logText, verdict, targetColorOffset>>

\* the frames of the two event-level specifications
Animate == time < MaxFrames /\ animate

---------------------------------------------------------------------------
(* SphereSpec: sphere.js under any caller of its exported functions *)

CallSetWorkingState(isWorking) ==
    LET m == setWorkingState(Cur, isWorking)
    IN  /\ WithinBudget(m)
        /\ Commit(m)
        /\ Step_("setWorkingState", isWorking)
        /\ reqWorking' = Requested(reqWorking, workingTimeout, isWorking)
        /\ UNCHANGED <<ferro, shader, glow, targetSpikeStrength, logText, verdict, colorOffset, now, time, workingState, waitingState, errorState,
                       reqWaiting, request, requestSince, shown, stimuli>>

CallSetWaitingState(isWaiting) ==
    LET m == setWaitingState(Cur, isWaiting)
    IN  /\ WithinBudget(m)
        /\ Commit(m)
        /\ Step_("setWaitingState", isWaiting)
        /\ reqWaiting' = Requested(reqWaiting, waitingTimeout, isWaiting)
        /\ UNCHANGED <<ferro, shader, glow, targetSpikeStrength, logText, verdict, colorOffset, now, time, workingState, waitingState, errorState,
                       reqWorking, request, requestSince, shown, stimuli>>

CallTriggerSpike ==
    LET m == triggerSpike(Cur)
    IN  /\ WithinBudget(m)
        /\ Commit(m)
        /\ Step_("triggerSpike", FALSE)
        /\ UNCHANGED <<ferro, shader, glow, targetSpikeStrength, logText, verdict, colorOffset, now, time, workingState, waitingState, errorState,
                       reqWorking, reqWaiting, request, requestSince, shown, stimuli>>

SphereNext ==
    \/ \E b \in BOOLEAN : CallSetWorkingState(b)
    \/ \E b \in BOOLEAN : CallSetWaitingState(b)
    \/ CallTriggerSpike
    \/ WorkingTimeoutFires
    \/ WaitingTimeoutFires
    \/ SpikeResetFires
    \/ Animate
    \/ AdvanceTime

SphereSpec == Init /\ [][SphereNext]_vars

---------------------------------------------------------------------------
(* Spec: app.js driving sphere.js *)

\* the log texts the websocket delivers
Contents ==
    { <<"a">>, <<"brain", "a">>, <<"a", "check">>, <<"cross", "a">>,
      <<"fire">>, <<"warning", "VS16", "a">>, <<"party", "a">>,
      <<"PM", ":", "a">> }

String(text) == [kind |-> "string", text |-> text]
NoString(kind) == [kind |-> kind, text |-> <<>>]

\* the frames the websocket delivers: log events with any of the texts or
\* without one, log events flagged as errors, a message of another type, and
\* data that is not JSON
Frames ==
    [ json : {TRUE}, type : {"log"},
      content : { String(c) : c \in Contents } \cup { NoString("missing") },
      is_error : {FALSE} ]
    \cup
    [ json : {TRUE}, type : {"log"},
      content : { String(<<"a">>), String(<<"brain", "a">>),
                  String(<<"cross", "a">>),
                  NoString("missing"), NoString("number") },
      is_error : {TRUE} ]
    \cup { [json |-> TRUE, type |-> "status", content |-> String(<<"a">>),
            is_error |-> FALSE],
           [json |-> FALSE, type |-> "", content |-> NoString("missing"),
            is_error |-> FALSE] }

IsLog(frame) == frame.json /\ frame.type = "log"

WorkingLog(frame) ==
    /\ IsLog(frame)
    /\ frame.content.kind = "string"
    /\ extractIcon(frame.content.text) \in WORKING_ICONS

\* the frame gets as far as showPlannerMonologue
Shows(frame) ==
    /\ IsLog(frame)
    /\ frame.content.kind = "string"
    /\ plannerMatch(frame.content.text)

ShownAfter(frame) ==
    IF Shows(frame)
    THEN [at |-> now, inFlight |-> request = "awaiting"]
    ELSE shown

\* ws.onmessage
Receive(frame) ==
    LET m == onmessage(Cur, frame)
    IN  /\ PageBudget(m)
        /\ Commit(m)
        /\ Step_("onmessage", IsLog(frame) /\ frame.is_error)
        /\ stimuli' = IF stimuli = "none" /\ WorkingLog(frame)
                      THEN "oneWorking" ELSE "other"
        /\ shown' = ShownAfter(frame)
        /\ UNCHANGED <<ferro, shader, glow, targetSpikeStrength, logText, verdict, colorOffset, now, time, workingState, waitingState, errorState,
                       reqWorking, reqWaiting, request, requestSince>>

\* the texts of the chat input, trimmed
Inputs == { "", "/clear", "hello" }

\* the send button or the Enter key: sendMessage up to its await
Sends(text) ==
    LET m == sendMessageStart(Cur, text)
    IN  /\ Commit(m)
        /\ request' = IF text \notin {"", "/clear"} /\ ~ isProcessingRequest
                      THEN "awaiting" ELSE request
        /\ requestSince' = IF request' # request THEN now ELSE requestSince
        /\ Quiet
        /\ stimuli' = "other"
        /\ UNCHANGED <<ferro, shader, glow, targetSpikeStrength, logText, verdict, colorOffset, now, time, workingState, waitingState, errorState,
                       reqWorking, reqWaiting, shown>>

SendMessage(text) == PageBudget(sendMessageStart(Cur, text)) /\ Sends(text)

Outcomes == { "reply", "error", "exception" }

\* the request settles: the rest of sendMessage and its finally block,
\* whatever the budget of the specification
Settles(outcome) ==
    LET m == sendMessageEnd(Cur, outcome)
    IN  /\ request = "awaiting"
        /\ Commit(m)
        /\ request' = "none"
        /\ requestSince' = -1
        /\ shown' = [shown EXCEPT !.inFlight = FALSE]
        /\ Quiet
        /\ UNCHANGED <<ferro, shader, glow, targetSpikeStrength, logText, verdict, colorOffset, now, time, workingState, waitingState, errorState,
                       reqWorking, reqWaiting, stimuli>>

RequestEnds(outcome) ==
    PageBudget(sendMessageEnd(Cur, outcome)) /\ Settles(outcome)

Next ==
    \/ \E frame \in Frames : Receive(frame)
    \/ \E text \in Inputs : SendMessage(text)
    \/ \E outcome \in Outcomes : RequestEnds(outcome)
    \/ WorkingTimeoutFires
    \/ WaitingTimeoutFires
    \/ SpikeResetFires
    \/ WorkTimerFires
    \/ HideMonologueFires
    \/ Animate
    \/ AdvanceTime

Spec == Init /\ [][Next]_vars

---------------------------------------------------------------------------
(* ClassifySpec: the classification of a log line, for any line *)

Chars == ExtendedPictographic \cup { "VS16", "a" }

Lines == UNION { [1..n -> Chars] : n \in 1..MaxLen }

ClassifyInit ==
    /\ PageLoaded
    /\ logText \in Lines
    /\ verdict = Unclassified

Classify ==
    /\ verdict = Unclassified
    /\ verdict' = classify(logText)
    /\ UNCHANGED <<ferro, shader, glow, now, time, nextId, timers,
                   targetWorkingState, targetWaitingState, targetErrorState,
                   workingState, waitingState, errorState,
                   spikeStrength, targetSpikeStrength,
                   workingTimeout, waitingTimeout, isProcessingRequest,
                   workTimer, monologueTimeout, monologueVisible,
                   lastStep, reqWorking, reqWaiting, request, requestSince, shown, stimuli,
                   logText, colorOffset, targetColorOffset>>

ClassifyNext == Classify

ClassifySpec == ClassifyInit /\ [][ClassifyNext]_vars

---------------------------------------------------------------------------
(* AnimSpec: the animation loop of sphere.js.  The page has been running    *)
(* for some time: the channels have any of a few values, and an activation *)
(* of each of the working and waiting channels and an error pulse, all      *)
(* requested ActivationDelay ago, are due.  From there frames are drawn,    *)
(* the timers run and heartbeats arrive, in any order.                      *)

\* the frame counts at which AnimSpec starts: the first frame, and shortly
\* before the idle breathing is at its lowest (sin(time * 1.5) = -1)
TickStarts == { 0, 313 }

\* the values of workingState and waitingState at the start
ActualGrid == { 0, Half, One }

AnimInit ==
    /\ now = ActivationDelay
    /\ time \in TickStarts
    /\ nextId = 4
    /\ timers = << [id |-> 1, callback |-> "workingTimeout",
                    due |-> ActivationDelay],
                   [id |-> 2, callback |-> "waitingTimeout",
                    due |-> ActivationDelay],
                   [id |-> 3, callback |-> "spikeReset",
                    due |-> SpikeDuration] >>
    /\ targetWorkingState = 0
    /\ targetWaitingState = 0
    /\ targetErrorState = One
    /\ workingState \in ActualGrid
    /\ waitingState \in ActualGrid
    /\ errorState \in { 0, One }
    /\ spikeStrength = InitialSpike
    /\ targetSpikeStrength = InitialSpike
    /\ colorOffset = 0
    /\ targetColorOffset = 0
    /\ paletteColor = IdleColors(time).palette
    /\ targetGlowColor = IdleColors(time).target
    /\ glowColor = IdleColors(time).glow
    /\ uniforms = [ uTime |-> time, uSpikeStrength |-> spikeStrength,
                    uWorkingState |-> workingState,
                    uWaitingState |-> waitingState,
                    uErrorState |-> errorState ]
    /\ NothingRendered
    /\ page = "app.js"
    /\ FerroLoaded
    /\ workingTimeout = 1
    /\ waitingTimeout = 2
    /\ isProcessingRequest = FALSE
    /\ workTimer = NoTimer
    /\ monologueTimeout = NoTimer
    /\ monologueVisible = FALSE
    /\ lastStep = [op |-> "-", arg |-> FALSE]
    /\ reqWorking = [last |-> "on", cancelled |-> -1]
    /\ reqWaiting = [last |-> "on", cancelled |-> -1]
    /\ request = "none"
    /\ requestSince = -1
    /\ shown = NotShown
    /\ stimuli = "other"
    /\ logText = <<>>
    /\ verdict = Unclassified

\* a frame of AnimSpec
AnimTick ==
    /\ \E start \in TickStarts : time \in start..(start + MaxTicks - 1)
    /\ animate

\* a heartbeat, delivered only while it leaves spikeStrength at or below cap
Heartbeat(m, cap) ==
    /\ m.spikeStrength <= cap
    /\ Commit(m)
    /\ Quiet
    /\ UNCHANGED <<ferro, shader, glow, targetSpikeStrength, logText, verdict, colorOffset, now, time,
                   workingState, waitingState, errorState,
                   reqWorking, reqWaiting, request, requestSince, shown, stimuli>>

CallTriggerPulse == Heartbeat(triggerPulse(Cur), MaxEnergy)

CallTriggerSmallPulse == Heartbeat(triggerSmallPulse(Cur), MaxEnergy)

AnimNext ==
    \/ AnimTick
    \/ CallTriggerPulse
    \/ CallTriggerSmallPulse
    \/ WorkingTimeoutFires
    \/ WaitingTimeoutFires
    \/ SpikeResetFires

AnimSpec == AnimInit /\ [][AnimNext]_vars

---------------------------------------------------------------------------
(* PulseSpec: heartbeats on the freshly loaded page, any number of them     *)
(* between two frames                                                        *)

StackTriggerPulse == Heartbeat(triggerPulse(Cur), MaxStack)

StackTriggerSmallPulse == Heartbeat(triggerSmallPulse(Cur), MaxStack)

PulseNext ==
    \/ StackTriggerPulse
    \/ StackTriggerSmallPulse
    \/ Animate

PulseSpec == Init /\ [][PulseNext]_vars

---------------------------------------------------------------------------
(* LoopSpec: the animation loop alone.  Each channel's target is 0 or 1 and *)
(* stays so, its value starts at 0 or at 1, and requestAnimationFrame keeps *)
(* the loop running: a frame that can be drawn is drawn eventually.         *)

LoopInit ==
    /\ now = 0
    /\ time = 0
    /\ targetWorkingState \in { 0, One }
    /\ targetWaitingState \in { 0, One }
    /\ targetErrorState \in { 0, One }
    /\ workingState \in { 0, One }
    /\ waitingState \in { 0, One }
    /\ errorState \in { 0, One }
    /\ timers = IF targetErrorState = One
                THEN << [id |-> 1, callback |-> "spikeReset",
                         due |-> SpikeDuration] >>
                ELSE <<>>
    /\ nextId = Len(timers) + 1
    /\ spikeStrength = InitialSpike
    /\ targetSpikeStrength = InitialSpike
    /\ colorOffset = 0
    /\ targetColorOffset = 0
    /\ paletteColor = White
    /\ targetGlowColor = InitialGlow
    /\ glowColor = InitialGlow
    /\ uniforms = [ uTime |-> 0, uSpikeStrength |-> InitialSpike,
                    uWorkingState |-> 0, uWaitingState |-> 0,
                    uErrorState |-> 0 ]
    /\ NothingRendered
    /\ page = "app.js"
    /\ FerroLoaded
    /\ workingTimeout = NoTimer
    /\ waitingTimeout = NoTimer
    /\ isProcessingRequest = FALSE
    /\ workTimer = NoTimer
    /\ monologueTimeout = NoTimer
    /\ monologueVisible = FALSE
    /\ lastStep = [op |-> "-", arg |-> FALSE]
    /\ reqWorking = [last |-> "none", cancelled |-> -1]
    /\ reqWaiting = [last |-> "none", cancelled |-> -1]
    /\ request = "none"
    /\ requestSince = -1
    /\ shown = NotShown
    /\ stimuli = "other"
    /\ logText = <<>>
    /\ verdict = Unclassified

\* a frame of LoopSpec
LoopTick == time < MaxLoop /\ animate

LoopNext == LoopTick

LoopSpec == LoopInit /\ [][LoopNext]_vars /\ WF_vars(LoopTick)

---------------------------------------------------------------------------
(* ColorSpec: the colour rotation of sphere.js.  triggerNextColor is called *)
(* between frames, up to MaxAdvance times; after the last frame the other   *)
(* exported functions of sphere.js are called and log events arrive.        *)

CallTriggerNextColor ==
    LET m == triggerNextColor(Cur)
    IN  /\ time % AdvanceEvery = 0
        /\ m.targetColorOffset <= MaxAdvance * One
        /\ lastStep.op \in { "-", "triggerNextColor" }
        /\ Commit(m)
        /\ Step_("triggerNextColor", FALSE)
        /\ UNCHANGED <<ferro, shader, glow, targetSpikeStrength, logText, verdict,
                       colorOffset, now, time,
                       workingState, waitingState, errorState,
                       reqWorking, reqWaiting, request, requestSince, shown, stimuli>>

CallUpdateSphereColor ==
    /\ Commit(updateSphereColor(Cur))
    /\ Step_("updateSphereColor", FALSE)
    /\ UNCHANGED <<ferro, shader, glow, targetSpikeStrength, logText, verdict,
                   colorOffset, now, time,
                   workingState, waitingState, errorState,
                   reqWorking, reqWaiting, request, requestSince, shown, stimuli>>

\* a frame of ColorSpec
ColorTick ==
    /\ time < MaxColorTicks
    /\ animate

\* the frames are over and the events have set at most MaxColorTimers timers
FramesOver == time = MaxColorTicks /\ nextId <= MaxColorTimers

ColorNext ==
    \/ CallTriggerNextColor
    \/ ColorTick
    \/ FramesOver /\ \E b \in BOOLEAN : CallSetWorkingState(b)
    \/ FramesOver /\ \E b \in BOOLEAN : CallSetWaitingState(b)
    \/ FramesOver /\ CallTriggerSpike
    \/ FramesOver /\ CallTriggerPulse
    \/ FramesOver /\ CallTriggerSmallPulse
    \/ FramesOver /\ CallUpdateSphereColor
    \/ FramesOver /\ \E frame \in Frames : Receive(frame)

ColorSpec == Init /\ [][ColorNext]_vars

---------------------------------------------------------------------------
(* ShaderSpec: frames and heartbeats on the freshly loaded page, and the    *)
(* vertex shader run on vertices of the unit icosphere                      *)

\* two vertices of the sphere of radius 1.0 (line 241)
Vertices == { <<Thousand, 0, 0>>, <<577, 577, 577>> }

\* main (lines 112-114): the shader runs for one vertex
Render(p) ==
    /\ Len(renderedWith) < MaxRenders
    /\ vDisplacement' = getDisplacement(p, uniforms)
    /\ renderedWith' = Append(renderedWith,
                              [ position |-> p, uniforms |-> uniforms,
                                vDisplacement |-> vDisplacement' ])
    /\ Step_("main", FALSE)
    /\ UNCHANGED <<ferro, glow, uniforms, now, nextId, timers, time,
                   workingTimeout, waitingTimeout,
                   isProcessingRequest, workTimer, monologueTimeout,
                   monologueVisible,
                   targetWorkingState, targetWaitingState, targetErrorState,
                   workingState, waitingState, errorState,
                   spikeStrength, targetSpikeStrength,
                   colorOffset, targetColorOffset,
                   reqWorking, reqWaiting, request, requestSince, shown, stimuli,
                   logText, verdict>>

\* a frame of ShaderSpec
ShaderTick ==
    /\ time < MaxShaderTicks
    /\ animate

\* the page asks for the working state once, before the first frame
ShaderActivate == time = 0 /\ nextId = 1 /\ CallSetWorkingState(TRUE)

\* the clock of ShaderSpec runs while the activation timer is pending
ShaderClock == timers # << >> /\ AdvanceTime

ShaderNext ==
    \/ \E p \in Vertices : Render(p)
    \/ ShaderTick
    \/ CallTriggerPulse
    \/ ShaderActivate
    \/ WorkingTimeoutFires
    \/ ShaderClock

ShaderSpec == Init /\ [][ShaderNext]_vars

---------------------------------------------------------------------------
(* CycleSpec: the idle page, on which nothing happens but frames *)

\* a frame of CycleSpec
CycleTick ==
    /\ time < MaxCycle
    /\ animate

CycleNext == CycleTick

CycleSpec == Init /\ [][CycleNext]_vars

---------------------------------------------------------------------------
(* part_001: the ferrofluid sphere that app2.js imports as sphere2.js.  Its *)
(* functions carry the names of sphere.js's; here they have the prefix      *)
(* ferro.                                                                    *)

FerroInitialSpike == 5000
FerroPulseSize == 20000
FerroSpikeDuration == 1000
FerroErrorSpike == 50000
FerroErrorSharpness == 8
FerroErrorTremor == 3000
FerroWorkingSpike == 40000
FerroWorkingSwing == 50
FerroWorkingFreq == 6000
FerroWorkingSharpness == 3
FerroIdleSpike == 5000
FerroIdleSwing == 20
FerroIdleFreq == 2000
FerroSpikeRate == 60
FerroTremorRate == 100
FerroWorkingRate == 80
FerroErrorRate == 100

\* the part of the state the handlers of app2.js and part_001 read and write
FerroCur ==
    [ nextId |-> nextId, timers |-> timers,
      targetWorking |-> targetWorking,
      targetError |-> targetError,
      spikeStrength |-> spikeStrength,
      isProcessingRequest |-> isProcessingRequest ]

FerroCommit(m) ==
    /\ nextId' = m.nextId
    /\ timers' = m.timers
    /\ targetWorking' = m.targetWorking
    /\ targetError' = m.targetError
    /\ spikeStrength' = m.spikeStrength
    /\ isProcessingRequest' = m.isProcessingRequest

\* what a step of the app2.js page leaves alone besides FerroCur
FerroRest ==
    <<glow, vDisplacement, renderedWith, page,
      targetWorkingState, targetWaitingState, targetErrorState,
      workingState, waitingState, errorState,
      workingTimeout, waitingTimeout, workTimer,
      monologueTimeout, monologueVisible,
      reqWorking, reqWaiting, stimuli, logText, verdict,
      colorOffset, targetColorOffset>>

\* setWorkingState(working): targetWorking = working ? 1.0 : 0.0
ferroSetWorkingState(m, working) ==
    [m EXCEPT !.targetWorking = IF working THEN One ELSE 0]

\* the callback of the timer set by triggerSpike
ferroSpikeResetCallback(m) == [m EXCEPT !.targetError = 0]

\* triggerSpike()
ferroTriggerSpike(m) ==
    [setTimeout(m, "ferroSpikeReset", FerroSpikeDuration)
       EXCEPT !.targetError = One]

\* triggerPulse(): spikeStrength += 0.2
ferroTriggerPulse(m) == [m EXCEPT !.spikeStrength = @ + FerroPulseSize]

\* the three presets of animate, by the targets
FerroPreset(frame) ==
    IF targetError > Half
    THEN [ spike |-> FerroErrorSpike, sharpness |-> FerroErrorSharpness * One,
           tremor |-> FerroErrorTremor ]
    ELSE IF targetWorking > Half
    THEN [ spike |-> FerroWorkingSpike
                       + Sin((frame * FerroWorkingFreq) \div FramesPerUnit)
                           * (FerroWorkingSwing \div 10),
           sharpness |-> FerroWorkingSharpness * One, tremor |-> 0 ]
    ELSE [ spike |-> FerroIdleSpike
                       + Sin((frame * FerroIdleFreq) \div FramesPerUnit)
                           * (FerroIdleSwing \div 10),
           sharpness |-> One, tremor |-> 0 ]

\* one animation frame of part_001
ferroAnimate ==
    /\ time' = time + 1
    /\ targetSpikeStrength' = FerroPreset(time + 1).spike
    /\ targetSharpness' = FerroPreset(time + 1).sharpness
    /\ targetTremor' = FerroPreset(time + 1).tremor
    /\ spikeStrength' =
           Smooth(spikeStrength, FerroPreset(time + 1).spike, FerroSpikeRate)
    /\ sharpness' =
           Smooth(sharpness, FerroPreset(time + 1).sharpness, FerroSpikeRate)
    /\ tremor' = Smooth(tremor, FerroPreset(time + 1).tremor, FerroTremorRate)
    /\ ferroIsWorking' = Smooth(ferroIsWorking, targetWorking, FerroWorkingRate)
    /\ isError' = Smooth(isError, targetError, FerroErrorRate)
    /\ uniforms' = [ uTime |-> time', uSpikeStrength |-> spikeStrength',
                     uSharpness |-> sharpness', uTremor |-> tremor',
                     uWorking |-> ferroIsWorking', uError |-> isError' ]
    /\ Quiet
    /\ UNCHANGED <<requestSince, shown, now, nextId, timers, targetWorking, targetError,
                   isProcessingRequest, request>>
    /\ UNCHANGED FerroRest

---------------------------------------------------------------------------
(* app2.js *)

\* ws.onmessage of app2.js
ferroOnmessage(m, frame) ==
    IF ~ frame.json THEN m
    ELSE IF frame.type # "log" THEN m
    ELSE LET h == ferroTriggerPulse(m)
         IN  IF frame.is_error THEN ferroTriggerSpike(h) ELSE h

\* sendMessage of app2.js up to its await
ferroSendMessageStart(m, text) ==
    IF text = "" \/ m.isProcessingRequest THEN m
    ELSE IF text = "/clear" THEN m
    ELSE ferroSetWorkingState([m EXCEPT !.isProcessingRequest = TRUE], TRUE)

\* sendMessage of app2.js from the await on
ferroSendMessageEnd(m, outcome) ==
    LET a == IF outcome = "reply" THEN m ELSE ferroTriggerSpike(m)
    IN  ferroSetWorkingState([a EXCEPT !.isProcessingRequest = FALSE], FALSE)

---------------------------------------------------------------------------
(* FerroSpec: app2.js driving part_001 *)

FerroInit ==
    /\ now = 0
    /\ time = 0
    /\ nextId = 1
    /\ timers = <<>>
    /\ page = "app2.js"
    /\ FerroLoaded
    /\ spikeStrength = FerroInitialSpike
    /\ targetSpikeStrength = FerroInitialSpike
    /\ uniforms = [ uTime |-> 0, uSpikeStrength |-> FerroInitialSpike,
                    uSharpness |-> One, uTremor |-> 0,
                    uWorking |-> 0, uError |-> 0 ]
    /\ NothingRendered
    /\ isProcessingRequest = FALSE
    /\ request = "none"
    /\ requestSince = -1
    /\ shown = NotShown
    /\ lastStep = [op |-> "-", arg |-> FALSE]
    /\ targetWorkingState = 0
    /\ targetWaitingState = 0
    /\ targetErrorState = 0
    /\ workingState = 0
    /\ waitingState = 0
    /\ errorState = 0
    /\ colorOffset = 0
    /\ targetColorOffset = 0
    /\ paletteColor = White
    /\ targetGlowColor = InitialGlow
    /\ glowColor = InitialGlow
    /\ workingTimeout = NoTimer
    /\ waitingTimeout = NoTimer
    /\ workTimer = NoTimer
    /\ monologueTimeout = NoTimer
    /\ monologueVisible = FALSE
    /\ reqWorking = [last |-> "none", cancelled |-> -1]
    /\ reqWaiting = [last |-> "none", cancelled |-> -1]
    /\ stimuli = "none"
    /\ logText = <<>>
    /\ verdict = Unclassified

\* a handler runs only while the behaviour's budget of timers allows it, and
\* if it gives a heartbeat, only while spikeStrength stays at or below
\* MaxFerroSpike
FerroBudget(m) ==
    /\ m.nextId <= MaxTimers + 1
    /\ m.spikeStrength = spikeStrength \/ m.spikeStrength <= MaxFerroSpike

\* the frames the websocket delivers, as far as app2.js tells them apart: a
\* log event, a log event flagged as an error, a message of another type,
\* and data that is not JSON
FerroFrames ==
    { [json |-> TRUE, type |-> "log", content |-> String(<<"a">>),
       is_error |-> FALSE],
      [json |-> TRUE, type |-> "log", content |-> NoString("missing"),
       is_error |-> TRUE],
      [json |-> TRUE, type |-> "status", content |-> String(<<"a">>),
       is_error |-> FALSE],
      [json |-> FALSE, type |-> "", content |-> NoString("missing"),
       is_error |-> FALSE] }

\* a handler of the app2.js page runs
FerroHandler(m) ==
    /\ page = "app2.js"
    /\ FerroBudget(m)
    /\ FerroCommit(m)
    /\ UNCHANGED <<now, time, targetSpikeStrength, uniforms, ferroIsWorking,
                   isError, sharpness, targetSharpness, tremor, targetTremor>>
    /\ UNCHANGED FerroRest

FerroReceive(frame) ==
    /\ FerroHandler(ferroOnmessage(FerroCur, frame))
    /\ Step_("onmessage", IsLog(frame) /\ frame.is_error)
    /\ UNCHANGED <<request, requestSince, shown>>

FerroSendMessage(text) ==
    /\ FerroHandler(ferroSendMessageStart(FerroCur, text))
    /\ request' = IF text \notin {"", "/clear"} /\ ~ isProcessingRequest
                  THEN "awaiting" ELSE request
    /\ requestSince' = IF request' # request THEN now ELSE requestSince
    /\ UNCHANGED shown
    /\ Step_("sendMessage", text \notin {"", "/clear"})

FerroRequestEnds(outcome) ==
    /\ request = "awaiting"
    /\ FerroHandler(ferroSendMessageEnd(FerroCur, outcome))
    /\ request' = "none"
    /\ requestSince' = -1
    /\ UNCHANGED shown
    /\ Step_("requestEnds", outcome # "reply")

FerroSpikeResetFires ==
    \E i \in 1..Len(timers) :
        /\ timers[i].callback = "ferroSpikeReset"
        /\ Runnable(i)
        /\ FerroHandler(ferroSpikeResetCallback(
               [FerroCur EXCEPT !.timers = RemoveAt(timers, i)]))
        /\ Quiet
        /\ UNCHANGED <<request, requestSince, shown>>

FerroTick ==
    /\ page = "app2.js"
    /\ time < MaxFerroTicks
    /\ ferroAnimate

FerroNext ==
    \/ \E frame \in FerroFrames : FerroReceive(frame)
    \/ \E text \in Inputs : FerroSendMessage(text)
    \/ \E outcome \in Outcomes : FerroRequestEnds(outcome)
    \/ FerroSpikeResetFires
    \/ FerroTick
    \/ AdvanceTime

FerroSpec == FerroInit /\ [][FerroNext]_vars

---------------------------------------------------------------------------
(* PagesSpec: either page, app.js with sphere.js or app2.js with part_001 *)

PagesInit == Init \/ FerroInit

PagesNext ==
    \/ page = "app.js" /\ Next
    \/ page = "app2.js" /\ FerroNext

PagesSpec == PagesInit /\ [][PagesNext]_vars

---------------------------------------------------------------------------
(* QuiesceSpec: app.js with sphere.js under a finite number of events, with *)
(* the event loop's guarantees: a due timer runs, time passes, and the      *)
(* request in flight settles                                                *)

\* a working line, an idle line and a line flagged as an error
QuiesceFrames ==
    { [json |-> TRUE, type |-> "log", content |-> String(<<"brain", "a">>),
       is_error |-> FALSE],
      [json |-> TRUE, type |-> "log", content |-> String(<<"a", "check">>),
       is_error |-> FALSE],
      [json |-> TRUE, type |-> "log", content |-> String(<<"a">>),
       is_error |-> TRUE] }

\* an event is delivered only while its timers, and the two that the end of
\* a request in flight then sets, stay within MaxQuiesceTimers
QuiesceBudget(m, inFlight) ==
    /\ m.nextId + (IF inFlight THEN 2 ELSE 0) <= MaxQuiesceTimers + 1
    /\ m.spikeStrength <= MaxQuiesceSpike

QuiesceReceive(frame) ==
    LET m == onmessage(Cur, frame)
    IN  /\ QuiesceBudget(m, request = "awaiting")
        /\ Commit(m)
        /\ Step_("onmessage", IsLog(frame) /\ frame.is_error)
        /\ stimuli' = "other"
        /\ shown' = ShownAfter(frame)
        /\ UNCHANGED <<ferro, shader, glow, targetSpikeStrength, logText,
                       verdict, colorOffset, now, time, workingState,
                       waitingState, errorState, reqWorking, reqWaiting,
                       request, requestSince>>

QuiesceSendMessage(text) ==
    /\ QuiesceBudget(sendMessageStart(Cur, text),
                     text \notin {"", "/clear"} \/ isProcessingRequest)
    /\ Sends(text)

\* time passes to MaxQuiesceTime, and beyond it to the next deadline
QuiesceAdvance ==
    /\ now < MaxQuiesceTime \/ timers # << >>
    /\ TimePasses

QuiesceEnds == \E outcome \in Outcomes : Settles(outcome)

QuiesceNext ==
    \/ \E frame \in QuiesceFrames : QuiesceReceive(frame)
    \/ \E text \in Inputs : QuiesceSendMessage(text)
    \/ QuiesceEnds
    \/ WorkingTimeoutFires
    \/ WaitingTimeoutFires
    \/ SpikeResetFires
    \/ WorkTimerFires
    \/ HideMonologueFires
    \/ QuiesceAdvance

QuiesceSpec ==
    /\ Init
    /\ [][QuiesceNext]_vars
    /\ WF_vars(QuiesceEnds)
    /\ WF_vars(WorkingTimeoutFires)
    /\ WF_vars(WaitingTimeoutFires)
    /\ WF_vars(SpikeResetFires)
    /\ WF_vars(WorkTimerFires)
    /\ WF_vars(HideMonologueFires)
    /\ WF_vars(QuiesceAdvance)

---------------------------------------------------------------------------
(* MonologueSpec: app.js under planner monologues and requests *)

\* a planner monologue and a line without an icon
MonologueFrames ==
    { [json |-> TRUE, type |-> "log", content |-> String(<<"PM", ":", "a">>),
       is_error |-> FALSE],
      [json |-> TRUE, type |-> "log", content |-> String(<<"a">>),
       is_error |-> FALSE] }

\* no line has a working icon, so no auto-idle timer is ever set
MonologueNext ==
    \/ \E frame \in MonologueFrames : QuiesceReceive(frame)
    \/ \E text \in Inputs : QuiesceSendMessage(text)
    \/ QuiesceEnds
    \/ WorkingTimeoutFires
    \/ WaitingTimeoutFires
    \/ SpikeResetFires
    \/ HideMonologueFires
    \/ QuiesceAdvance

MonologueSpec == Init /\ [][MonologueNext]_vars

---------------------------------------------------------------------------
(* The channel state machine of sphere.js *)

ChannelState(target, callback) ==
    IF target = 0 /\ Pending(callback) = {} THEN "Idle"
    ELSE IF target = 0 THEN "PendingActivate"
    ELSE IF target = One /\ Pending(callback) = {} THEN "Active"
    ELSE "Other"

WorkingChannel == ChannelState(targetWorkingState, "workingTimeout")
WaitingChannel == ChannelState(targetWaitingState, "waitingTimeout")

---------------------------------------------------------------------------
(* Claims *)

\* C1 (SphereSpec): no flicker.  From an activation request on, while its
\* timer is pending and after a deactivation request has followed it, the
\* channel's target is 0: a deactivation leaves no timer behind that could
\* still set the target to 1.
C1_NoFlicker ==
    /\ (Pending("workingTimeout") # {} \/ reqWorking.last = "off")
          => targetWorkingState = 0
    /\ (Pending("waitingTimeout") # {} \/ reqWaiting.last = "off")
          => targetWaitingState = 0
    /\ reqWorking.last = "off" => Pending("workingTimeout") = {}
    /\ reqWaiting.last = "off" => Pending("waitingTimeout") = {}

\* an activation was cancelled before its delay had elapsed, and the time at
\* which its timer would have run has passed
C1_Witness ==
    /\ reqWorking.last = "off"
    /\ reqWorking.cancelled # -1
    /\ now >= reqWorking.cancelled
    /\ targetWorkingState = 0

C3_SingleResetTimer ==
    Cardinality(Pending("spikeReset")) <= 1

\* C4 (SphereSpec): each of the working and waiting channels has at most one
\* pending activation timer, and its handle is non-null exactly when that
\* timer is pending, and then names it.
C4_SingleFlight ==
    /\ Cardinality(Pending("workingTimeout")) <= 1
    /\ Cardinality(Pending("waitingTimeout")) <= 1
    /\ workingTimeout # NoTimer <=> Pending("workingTimeout") # {}
    /\ waitingTimeout # NoTimer <=> Pending("waitingTimeout") # {}
    /\ \A t \in Pending("workingTimeout") : t.id = workingTimeout
    /\ \A t \in Pending("waitingTimeout") : t.id = waitingTimeout

\* a timer is pending on the working channel after earlier ones have been
\* cancelled or have run
C4_Witness ==
    /\ workingTimeout >= 3
    /\ Pending("workingTimeout") # {}
    /\ waitingTimeout = NoTimer
    /\ targetWaitingState = One

\* C5 (Spec): while the lock is held, the handling of a websocket frame and
\* the callbacks of the timers that the handling of a log event sets
\* (workTimer, the error reset, the monologue's hide timer) leave the working
\* channel's target, its handle and its pending activation timer as they are.
C5_LockShields ==
    [][ (isProcessingRequest
           /\ \/ lastStep'.op = "onmessage"
              \/ WorkTimerFires
              \/ SpikeResetFires
              \/ HideMonologueFires)
        => /\ targetWorkingState' = targetWorkingState
           /\ workingTimeout' = workingTimeout
           /\ Pending("workingTimeout")' = Pending("workingTimeout") ]_vars

\* a log event has been handled during a request whose activation timer is
\* pending, and the timer is pending still
C5_Witness ==
    /\ isProcessingRequest
    /\ lastStep.op = "onmessage"
    /\ workingTimeout # NoTimer
    /\ Pending("workingTimeout") # {}

\* C6 (Spec), as claimed: right after the handling of a log event whose
\* is_error flag is true, the error target is 1.
C6_ErrorFlagSignals ==
    (lastStep.op = "onmessage" /\ lastStep.arg) => targetErrorState = One

\* C7 (Spec), as claimed: when all the page has received is one log event
\* of the Working class, no animation frame moves workingState off 0.
C7_SingleEventInvisible ==
    stimuli = "oneWorking" => workingState = 0

\* C8 (SphereSpec): an activation request on a channel whose target is 1 or
\* whose timer is pending changes neither the target, nor the handle, nor
\* any pending timer or its deadline.
C8_RepeatedActivateNoOp ==
    [][ /\ ((targetWorkingState = One \/ workingTimeout # NoTimer)
              /\ CallSetWorkingState(TRUE))
           => UNCHANGED <<targetWorkingState, workingTimeout, timers, nextId>>
        /\ ((targetWaitingState = One \/ waitingTimeout # NoTimer)
              /\ CallSetWaitingState(TRUE))
           => UNCHANGED <<targetWaitingState, waitingTimeout, timers, nextId>>
      ]_vars

\* the last step was an activation request on the working channel, whose
\* pending timer was set by an earlier request
C8_Witness ==
    /\ lastStep = [op |-> "setWorkingState", arg |-> TRUE]
    /\ \E t \in Pending("workingTimeout") : t.due < now + ActivationDelay

\* C9 (SphereSpec): an activation request on an Idle channel leaves the
\* target at 0 and sets one timer due ActivationDelay later; the target rises
\* to 1 only in the step in which that timer, its deadline passed, runs; and
\* the running timer sets the target to 1 and clears the handle.
C9_ActivateAfterDelay ==
    [][ /\ (WorkingChannel = "Idle" /\ CallSetWorkingState(TRUE))
           => /\ targetWorkingState' = 0
              /\ workingTimeout' = nextId
              /\ Pending("workingTimeout")' =
                     { [id |-> nextId, callback |-> "workingTimeout",
                        due |-> now + ActivationDelay] }
        /\ (WaitingChannel = "Idle" /\ CallSetWaitingState(TRUE))
           => /\ targetWaitingState' = 0
              /\ waitingTimeout' = nextId
              /\ Pending("waitingTimeout")' =
                     { [id |-> nextId, callback |-> "waitingTimeout",
                        due |-> now + ActivationDelay] }
        /\ (targetWorkingState = 0 /\ targetWorkingState' = One)
           => /\ \E t \in Pending("workingTimeout") :
                     t.id = workingTimeout /\ t.due <= now
              /\ WorkingTimeoutFires
        /\ (targetWaitingState = 0 /\ targetWaitingState' = One)
           => /\ \E t \in Pending("waitingTimeout") :
                     t.id = waitingTimeout /\ t.due <= now
              /\ WaitingTimeoutFires
        /\ WorkingTimeoutFires
           => targetWorkingState' = One /\ workingTimeout' = NoTimer
        /\ WaitingTimeoutFires
           => targetWaitingState' = One /\ waitingTimeout' = NoTimer
      ]_vars

\* an activation request that no deactivation followed has come due
C9_Witness ==
    /\ reqWorking.last = "on"
    /\ targetWorkingState = One
    /\ workingTimeout = NoTimer
    /\ now >= ActivationDelay

\* C10 (SphereSpec): a channel is Idle, PendingActivate or Active, and it
\* changes only from Idle to PendingActivate by an activation request, from
\* PendingActivate to Active by its timer, and from PendingActivate or Active
\* to Idle by a deactivation request.
Transition(from, to, activate, fires, deactivate) ==
    from # to =>
        \/ from = "Idle" /\ to = "PendingActivate" /\ activate
        \/ from = "PendingActivate" /\ to = "Active" /\ fires
        \/ from \in {"PendingActivate", "Active"} /\ to = "Idle" /\ deactivate

C10_StateMachine ==
    [][ /\ WorkingChannel # "Other" /\ WaitingChannel # "Other"
        /\ Transition(WorkingChannel, WorkingChannel',
                      CallSetWorkingState(TRUE), WorkingTimeoutFires,
                      CallSetWorkingState(FALSE))
        /\ Transition(WaitingChannel, WaitingChannel',
                      CallSetWaitingState(TRUE), WaitingTimeoutFires,
                      CallSetWaitingState(FALSE)) ]_vars

\* one channel has become Active through its timer while the other is
\* PendingActivate
C10_Witness ==
    /\ WaitingChannel = "Active"
    /\ WorkingChannel = "PendingActivate"
    /\ reqWaiting.last = "on"

\* the entries of the classifier's tables
TableTokens ==
    WORKING_ICONS \cup IDLE_ICONS \cup SpikeIcons
    \cup { <<"wrench">> }

\* the first pictograph of the text, with the variation selector that
\* follows it if one does, is the token
FirstPictographIs(text, token) ==
    \E i \in 1..Len(text) :
        /\ text[i] \in ExtendedPictographic
        /\ \A j \in 1..(i - 1) : text[j] \notin ExtendedPictographic
        /\ i + Len(token) - 1 <= Len(text)
        /\ SubSeq(text, i, i + Len(token) - 1) = token

\* C11 (ClassifySpec), as claimed: a line whose first pictograph is a token
\* of the tables is given the class and the colour the tables give the
\* token, and the error pulse if the token is in the failure list; the
\* tokens written with a variation selector included.
C11_TablesClassify ==
    verdict # Unclassified =>
        \A token \in TableTokens :
            FirstPictographIs(logText, token) =>
                /\ verdict.class = stateClass(token)
                /\ verdict.color = getIconColor(token)
                /\ token \in SpikeIcons => verdict.spike

\* the text has no pictograph, or its first pictograph is no token of the
\* tables
Unmapped(text) ==
    \A token \in TableTokens : ~ FirstPictographIs(text, token)

\* the log events of C12: the text is unmapped and is_error is not set
NeutralFrames ==
    { [json |-> TRUE, type |-> "log", content |-> String(c),
       is_error |-> FALSE] : c \in { t \in Contents : Unmapped(t) } }

\* C12 (Spec): the handling of a log event whose text has no pictograph, or
\* whose first pictograph is in no table, and whose is_error flag is not
\* set: the text is classified Neutral with the default colour and without
\* the error pulse; the targets, the handles and the pending timers of the
\* working, waiting and error channels and the auto-idle timer stay as they
\* are; and spikeStrength grows by the heartbeat (the small one for a
\* planner monologue line).
C12_NeutralLog ==
    [][ lastStep'.op = "onmessage" =>
        \A frame \in NeutralFrames :
          Receive(frame) =>
            /\ classify(frame.content.text).class = "Neutral"
            /\ classify(frame.content.text).color = "#bd00ff"
            /\ ~ classify(frame.content.text).spike
            /\ UNCHANGED <<targetWorkingState, targetWaitingState,
                           targetErrorState, workingTimeout, waitingTimeout,
                           workTimer>>
            /\ \A callback \in { "workingTimeout", "waitingTimeout",
                                  "spikeReset", "workTimer" } :
                   Pending(callback)' = Pending(callback)
            /\ spikeStrength' = spikeStrength
                   + (IF isMonologue(frame.content.text)
                      THEN SmallPulseSize ELSE PulseSize) ]_vars

\* a planner monologue line has been handled while the working channel is
\* Active after a Working line: the target is still 1 and spikeStrength
\* holds both heartbeats
C12_Witness ==
    /\ lastStep.op = "onmessage"
    /\ ~ lastStep.arg
    /\ ~ isProcessingRequest
    /\ monologueVisible
    /\ targetWorkingState = One
    /\ spikeStrength = InitialSpike + PulseSize + SmallPulseSize

\* a step is a frame exactly when it advances time
IsTick == time' # time

\* the rate a channel would have by its own direction
OwnRate(actual, target) == IF target > actual THEN WakeRate ELSE SleepRate

\* C13 (AnimSpec), as claimed: in every frame each of the working and
\* waiting channels moves by the rate of its own direction, the slow one
\* when its target is above its value and the fast one when it is below,
\* whatever the other channel does.
C13_OwnDirectionRate ==
    [][ IsTick =>
          /\ workingState' = workingState
                + ((targetWorkingState - workingState)
                     * OwnRate(workingState, targetWorkingState)) \div RateScale
          /\ waitingState' = waitingState
                + ((targetWaitingState - waitingState)
                     * OwnRate(waitingState, targetWaitingState)) \div RateScale
      ]_vars

\* C13 (AnimSpec), amended: in every frame the working and the waiting
\* channel move by one and the same rate, the slow one when the target of
\* at least one of the two is above its value by more than the margin 0.01,
\* and the fast one otherwise.
C13_SharedRate ==
    [][ IsTick =>
          LET rate == IF \/ targetWorkingState > workingState + WakeMargin
                         \/ targetWaitingState > waitingState + WakeMargin
                      THEN WakeRate ELSE SleepRate
          IN  /\ workingState' = workingState
                    + ((targetWorkingState - workingState) * rate)
                          \div RateScale
              /\ waitingState' = waitingState
                    + ((targetWaitingState - waitingState) * rate)
                          \div RateScale ]_vars

\* one frame has been drawn in which the working channel rose from 0 and
\* the waiting channel fell from 1, both at the slow rate
C13_Witness ==
    /\ time \in { start + 1 : start \in TickStarts }
    /\ targetWorkingState = One
    /\ workingState = (One * WakeRate) \div RateScale
    /\ targetWaitingState = 0
    /\ waitingState = One - (One * WakeRate) \div RateScale

\* the error preset mixed with the breathing, errorState being the weight of
\* the preset
MixedTarget(frame) ==
    NormalSpikeTarget(frame)
      + ((ErrorSpike - NormalSpikeTarget(frame)) * (errorState \div Thousand))
            \div (One \div Thousand)

\* C14 (AnimSpec), as claimed: the value a frame gives targetSpikeStrength
\* is the mix of the breathing and the error preset by errorState.
C14_MixedTarget ==
    [][ IsTick => targetSpikeStrength' = MixedTarget(time') ]_vars

\* C14 (AnimSpec), amended: the value a frame gives targetSpikeStrength is
\* the error preset when targetErrorState is above 0.5 and the breathing
\* otherwise, whatever errorState is; and the frame moves spikeStrength
\* towards that value by the frame's rate.
C14_SwitchedTarget ==
    [][ IsTick =>
          /\ targetSpikeStrength' =
                 IF targetErrorState > Half THEN ErrorSpike
                 ELSE NormalSpikeTarget(time')
          /\ \E rate \in { WakeRate, SleepRate } :
                 spikeStrength' = spikeStrength
                    + ((targetSpikeStrength' - spikeStrength) * rate)
                          \div RateScale ]_vars

\* the first frame after the error pulse: targetSpikeStrength is the error
\* preset while errorState has only begun to rise
C14_Witness ==
    /\ time \in { start + 1 : start \in TickStarts }
    /\ targetSpikeStrength = ErrorSpike
    /\ errorState = (One * ErrorRate) \div RateScale

\* the lowest value of the breathing: baseAmp - ampVar at activity level 0
MinSpikeTarget == Scaled(BaseAmpIdle - AmpVarIdle)

\* C15 (PulseSpec), as claimed: spikeStrength stays between the lowest value
\* of its target and the error preset, however many heartbeats arrive.
C15_EnergyBounded ==
    /\ spikeStrength >= MinSpikeTarget
    /\ spikeStrength <= ErrorSpike

\* C16 (AnimSpec): the targets and the values of the working, waiting and
\* error channels lie between 0 and 1.
C16_ChannelsInRange ==
    \A x \in { targetWorkingState, targetWaitingState, targetErrorState,
                workingState, waitingState, errorState } :
        0 <= x /\ x <= One

\* frames have moved the three channels off their bounds, the working
\* channel towards the 1 its timer has set
C16_Witness ==
    /\ targetWorkingState = One
    /\ 0 < workingState /\ workingState < One
    /\ 0 < waitingState /\ waitingState < One
    /\ 0 < errorState /\ errorState < One
    /\ time \notin TickStarts

\* the rates of the smoothing
Rates == { WakeRate, SleepRate, ErrorRate }

Moved(actual, target, rate) ==
    actual + ((target - actual) * rate) \div RateScale

\* C17 (Spec): a frame moves each of workingState, waitingState and
\* errorState by (target - value) * rate for one of the rates, all of which
\* lie strictly between 0 and 1; every other step (a log event, the send
\* button, the end of a request, a timer callback, the passing of time)
\* leaves the three values as they are.
C17_OnlyTickMovesActual ==
    [][ /\ \A rate \in Rates : 0 < rate /\ rate < RateScale
        /\ IF IsTick
           THEN /\ \E rate \in { WakeRate, SleepRate } :
                     /\ workingState' =
                            Moved(workingState, targetWorkingState, rate)
                     /\ waitingState' =
                            Moved(waitingState, targetWaitingState, rate)
                /\ errorState' = Moved(errorState, targetErrorState, ErrorRate)
           ELSE UNCHANGED <<workingState, waitingState, errorState>> ]_vars

\* a frame has raised workingState and errorState, and the log event
\* handled after it has left them there
C17_Witness ==
    /\ lastStep.op = "onmessage"
    /\ time > 0
    /\ workingState = (One * WakeRate) \div RateScale
    /\ errorState = (One * ErrorRate) \div RateScale

\* everything but spikeStrength that sphere.js and app.js keep
AllButSpikeStrength ==
    <<time, nextId, timers,
      targetWorkingState, targetWaitingState, targetErrorState,
      workingState, waitingState, errorState, targetSpikeStrength,
      colorOffset, targetColorOffset, workingTimeout, waitingTimeout,
      isProcessingRequest, workTimer, monologueTimeout, monologueVisible>>

\* C19 (AnimSpec): triggerPulse adds 0.3 and triggerSmallPulse adds 0.05 to
\* spikeStrength, and neither changes anything else: the energy target, the
\* targets, values, handles and timers of the channels and the colour
\* offset and its target stay as they are.
C19_PulseOnlyAdds ==
    [][ /\ CallTriggerPulse =>
              /\ spikeStrength' = spikeStrength + PulseSize
              /\ UNCHANGED AllButSpikeStrength
        /\ CallTriggerSmallPulse =>
              /\ spikeStrength' = spikeStrength + SmallPulseSize
              /\ UNCHANGED AllButSpikeStrength ]_vars

\* the small heartbeat has been added to the spikeStrength that the first
\* frame had moved towards the error preset, with a timer pending
C19_Witness ==
    /\ time = 1
    /\ timers # <<>>
    /\ targetSpikeStrength = ErrorSpike
    /\ spikeStrength =
           Moved(InitialSpike, ErrorSpike, SleepRate) + SmallPulseSize

\* C20 (AnimSpec): spikeStrength and targetSpikeStrength are never negative.
C20_EnergyNotNegative ==
    spikeStrength >= 0 /\ targetSpikeStrength >= 0

\* a frame has set targetSpikeStrength at the bottom of the idle breathing
\* (sin = -1, no activity, no error) and spikeStrength has followed it down
C20_Witness ==
    /\ targetSpikeStrength - MinSpikeTarget < One \div Thousand
    /\ spikeStrength < InitialSpike

Dist(target, actual) ==
    IF target >= actual THEN target - actual ELSE actual - target

\* a frame brings the value no further from its target and not past it
Approaches(target, actual, after) ==
    /\ Dist(target, after) <= Dist(target, actual)
    /\ actual <= target => after <= target
    /\ actual >= target => after >= target

\* C18 (LoopSpec): with the targets unchanged, every frame leaves each of
\* workingState, waitingState and errorState no further from its target than
\* it was and on the same side of it, and the loop brings all three within
\* Epsilon of their targets.
C18_Converges ==
    /\ [][ IsTick =>
              /\ UNCHANGED <<targetWorkingState, targetWaitingState,
                             targetErrorState>>
              /\ Approaches(targetWorkingState, workingState, workingState')
              /\ Approaches(targetWaitingState, waitingState, waitingState')
              /\ Approaches(targetErrorState, errorState, errorState') ]_vars
    /\ <>( /\ Dist(targetWorkingState, workingState) <= Epsilon
           /\ Dist(targetWaitingState, waitingState) <= Epsilon
           /\ Dist(targetErrorState, errorState) <= Epsilon )

\* the working channel has risen from 0 to within Epsilon of its target 1,
\* the waiting channel has fallen from 1 to within Epsilon of its target 0
C18_Witness ==
    /\ time > 0
    /\ targetWorkingState = One
    /\ workingState < One
    /\ One - workingState <= Epsilon
    /\ targetWaitingState = 0
    /\ 0 < waitingState
    /\ waitingState <= Epsilon

\* the step is a call of triggerNextColor
IsAdvance == lastStep'.op = "triggerNextColor"

\* C21 as stated (ColorSpec): a call of triggerNextColor advances colorOffset,
\* the offset that enters effectiveIndex, by exactly one step.
C21_OffsetAdvances ==
    [][ IsAdvance => colorOffset' = colorOffset + One ]_vars

\* C21 (ColorSpec): a call of triggerNextColor advances targetColorOffset by
\* exactly one step and leaves colorOffset as it is; colorOffset never exceeds
\* targetColorOffset, and each frame brings it no further from it.
C21_TargetAdvances ==
    /\ [][ /\ IsAdvance => /\ targetColorOffset' = targetColorOffset + One
                           /\ colorOffset' = colorOffset
           /\ IsTick => Approaches(targetColorOffset, colorOffset,
                                   colorOffset') ]_vars
    /\ [](colorOffset <= targetColorOffset)

\* the second call of triggerNextColor, made while colorOffset was on its way
\* to the first step
C21_Witness ==
    /\ lastStep.op = "triggerNextColor"
    /\ targetColorOffset = 2 * One
    /\ 0 < colorOffset
    /\ colorOffset < One

\* C22 as stated (ColorSpec): every step that is not a call of
\* triggerNextColor (a frame, a log event, a spike, an activation, a
\* deactivation, a heartbeat) leaves colorOffset unchanged.
C22_OffsetConstant ==
    [][ ~ IsAdvance => colorOffset' = colorOffset ]_vars

\* C22 (ColorSpec): every step that is not a call of triggerNextColor leaves
\* targetColorOffset unchanged; it leaves colorOffset unchanged too unless it
\* is a frame drawn while colorOffset differs from targetColorOffset, and
\* that frame moves colorOffset towards targetColorOffset.
C22_TargetConstant ==
    [][ ~ IsAdvance =>
          /\ targetColorOffset' = targetColorOffset
          /\ ~ IsTick => colorOffset' = colorOffset
          /\ (IsTick /\ colorOffset = targetColorOffset)
                => colorOffset' = colorOffset
          /\ (IsTick /\ colorOffset # targetColorOffset)
                => colorOffset' =
                       Moved(colorOffset, targetColorOffset, ColorRate) ]_vars

\* a log event has arrived while colorOffset was on its way
C22_Witness ==
    /\ lastStep.op = "onmessage"
    /\ 0 < colorOffset
    /\ colorOffset < targetColorOffset

\* the values channel i takes in the palette and in the initial colour
ChannelValues(i) ==
    { palette[k][i] : k \in 1..Len(palette) } \cup { InitialGlow[i] }

InGamut(color) ==
    \A i \in 1..3 :
        \E lo, hi \in ChannelValues(i) : lo <= color[i] /\ color[i] <= hi

\* C24 (ColorSpec): every channel of glowColor and of targetGlowColor lies
\* between the least and the greatest value the channel has in the palette
\* and the initial colour, and only a frame changes glowColor.
C24_GlowInGamut ==
    /\ [](InGamut(glowColor) /\ InGamut(targetGlowColor))
    /\ [][ ~ IsTick => glowColor' = glowColor ]_vars

\* the colour has left its initial value, the palette is at its last entry
\* and updateSphereColor has been called
C24_Witness ==
    /\ lastStep.op = "updateSphereColor"
    /\ glowColor # InitialGlow
    /\ targetGlowColor # InitialGlow
    /\ index1(time, colorOffset) = Len(palette) - 1

\* the number of frames after which time * cycleSpeed equals palette.length
FullCycle == (Len(palette) * Thousand * FramesPerUnit) \div CycleSpeed

\* C23 (CycleSpec): with colorOffset 0, the frame that brings time to
\* palette.length / cycleSpeed computes the effectiveIndex of time 0, takes
\* the same two palette entries and sets paletteColor to the colour of time 0.
C23_CycleCloses ==
    (time = FullCycle /\ colorOffset = 0)
        => /\ effectiveIndex(time, colorOffset) = effectiveIndex(0, 0)
           /\ index1(time, colorOffset) = index1(0, 0)
           /\ index2(time, colorOffset) = index2(0, 0)
           /\ paletteColor = PaletteAt(0, 0)

\* the frame that closes the cycle has been drawn: the palette is back at
\* its first entry
C23_Witness ==
    /\ time = FullCycle
    /\ colorOffset = 0
    /\ paletteColor = palette[1]

\* the state of the page: every variable that is not a history variable
PageState ==
    <<now, time, nextId, timers,
      targetWorkingState, targetWaitingState, targetErrorState,
      workingState, waitingState, errorState,
      spikeStrength, targetSpikeStrength,
      workingTimeout, waitingTimeout,
      isProcessingRequest, workTimer, monologueTimeout, monologueVisible,
      colorOffset, targetColorOffset, glow>>

\* C25 (SphereSpec): a deactivation request on a channel whose target is 0
\* and whose timer is not pending changes nothing, and after any deactivation
\* request a second one would change nothing.
C25_DeactivateIdempotent ==
    [][ /\ lastStep' = [op |-> "setWorkingState", arg |-> FALSE]
           => /\ (targetWorkingState = 0 /\ Pending("workingTimeout") = {})
                   => UNCHANGED PageState
              /\ setWorkingState(Cur', FALSE) = Cur'
        /\ lastStep' = [op |-> "setWaitingState", arg |-> FALSE]
           => /\ (targetWaitingState = 0 /\ Pending("waitingTimeout") = {})
                   => UNCHANGED PageState
              /\ setWaitingState(Cur', FALSE) = Cur' ]_vars

\* a deactivation request has been made on the working channel of a page
\* that never set a timer, while the waiting channel's timer is not pending
\* either: both channels were Idle when it was made
C25_Witness ==
    /\ lastStep = [op |-> "setWorkingState", arg |-> FALSE]
    /\ reqWorking = [last |-> "off", cancelled |-> -1]
    /\ nextId = 1
    /\ targetWorkingState = 0
    /\ now > 0

\* C26 (FerroSpec): on the app2.js page the working target rises to 1 only in
\* a step in which a timer set ActivationDelay earlier runs, never in the
\* step of sendMessage that requests the activation.
C26_FerroActivateDebounced ==
    [][ (targetWorking = 0 /\ targetWorking' = One)
          => /\ lastStep'.op # "sendMessage"
             /\ \E i \in 1..Len(timers) :
                    /\ timers[i].due <= now
                    /\ timers[i].due >= ActivationDelay
                    /\ timers' = RemoveAt(timers, i) ]_vars

RequestSettles == request = "awaiting" /\ request' = "none"

\* C28 (PagesSpec): when a request ends, with a reply, an error payload or an
\* exception, the lock is released, the working and waiting targets are 0
\* and no activation timer is pending on either channel.
C28_EndReleases ==
    [][ RequestSettles
          => /\ isProcessingRequest' = FALSE
             /\ targetWorkingState' = 0
             /\ targetWaitingState' = 0
             /\ targetWorking' = 0
             /\ workingTimeout' = NoTimer
             /\ waitingTimeout' = NoTimer
             /\ \A i \in 1..Len(timers') :
                    timers'[i].callback
                        \notin { "workingTimeout", "waitingTimeout" } ]_vars

\* on the app.js page a request has ended in an error or an exception before
\* its activation timers were due: they are gone, the error spike's timer
\* and the monologue's are the ones left
C28_Witness ==
    /\ page = "app.js"
    /\ request = "none"
    /\ now < ActivationDelay
    /\ time = 0
    /\ spikeStrength = InitialSpike
    /\ targetErrorState = One
    /\ ~ isProcessingRequest
    /\ targetWorkingState = 0
    /\ targetWaitingState = 0
    /\ nextId = 5
    /\ Len(timers) = 2
    /\ timers[1].callback = "spikeReset"
    /\ timers[2].callback = "hidePlannerMonologue"

\* C29 (Spec): while a request that was sent ActivationDelay or more ago is
\* in flight, the working target and the waiting target are both 1, whatever
\* log events and timers came in between: a target is still 0 only while its
\* channel's timer, due ActivationDelay after the sending at the latest, has
\* yet to run, and the clock does not move on before it has.
C29_FlightHoldsTargets ==
    /\ []((request = "awaiting" /\ now >= requestSince + ActivationDelay)
            => /\ \/ targetWorkingState = One
                  \/ \E t \in Pending("workingTimeout") :
                         /\ t.id = workingTimeout
                         /\ t.due <= requestSince + ActivationDelay
               /\ \/ targetWaitingState = One
                  \/ \E t \in Pending("waitingTimeout") :
                         /\ t.id = waitingTimeout
                         /\ t.due <= requestSince + ActivationDelay)
    /\ [][ (/\ request = "awaiting"
            /\ now >= requestSince + ActivationDelay
            /\ now' # now)
              => targetWorkingState = One /\ targetWaitingState = One ]_vars

\* a request has been in flight for longer than ActivationDelay and a log
\* event has just come in
C29_Witness ==
    /\ request = "awaiting"
    /\ now > requestSince + ActivationDelay
    /\ lastStep.op = "onmessage"
    /\ targetWorkingState = One
    /\ targetWaitingState = One

\* C30 (PagesSpec): the lock is true exactly while a request is in flight; a
\* request is sent only from the unlocked page with none in flight, so there
\* is never more than one; sendMessage under the lock returns with the lock,
\* the timers and the channels as they were, whatever the text; and
\* sendMessage('/clear') changes none of them either.
C30_OneRequestUnderLock ==
    /\ [](/\ isProcessingRequest <=> request = "awaiting"
          /\ request = "awaiting" <=> requestSince >= 0
          /\ \A text \in Inputs :
                 (isProcessingRequest \/ text = "/clear")
                     => /\ page = "app.js" => sendMessageStart(Cur, text) = Cur
                        /\ page = "app2.js"
                               => ferroSendMessageStart(FerroCur, text) = FerroCur)
    /\ [][ (request' = "awaiting" /\ requestSince' # requestSince)
              => /\ ~ isProcessingRequest
                 /\ request = "none"
                 /\ requestSince' = now ]_vars

\* on the app2.js page sendMessage('hello') has just run while the request
\* sent earlier was still in flight
C30_Witness ==
    /\ page = "app2.js"
    /\ lastStep = [op |-> "sendMessage", arg |-> TRUE]
    /\ request = "awaiting"
    /\ isProcessingRequest
    /\ now > requestSince

\* C31 (SphereSpec): a working or waiting channel that has an activation
\* timer pending has target 0: no timer is pending while the channel is
\* Active.
C31_NoTimerWhileActive ==
    /\ Pending("workingTimeout") # {} => targetWorkingState = 0
    /\ Pending("waitingTimeout") # {} => targetWaitingState = 0

\* the working channel has been activated again, ActivationDelay or more
\* after the page loaded, while the waiting channel is Active
C31_Witness ==
    /\ Pending("workingTimeout") # {}
    /\ targetWorkingState = 0
    /\ targetWaitingState = One
    /\ lastStep = [op |-> "setWorkingState", arg |-> TRUE]
    /\ now >= ActivationDelay

\* C32 (Spec): the waiting channel is never ahead of the working channel:
\* the waiting target is 1 only while the working target is 1, the waiting
\* value is at most the working value, now and after the next frame, and
\* so the activity level is the working value.
C32_WaitingNotAhead ==
    /\ targetWaitingState = One => targetWorkingState = One
    /\ waitingState <= workingState
    /\ Smooth(waitingState, targetWaitingState, transitionSpeed)
           <= Smooth(workingState, targetWorkingState, transitionSpeed)
    /\ activityLevel = workingState

\* a frame has been drawn with both targets at 1 in a request, and the
\* request has ended since: both values are above 0 and both targets 0
C32_Witness ==
    /\ time > 0
    /\ waitingState > 0
    /\ workingState >= waitingState
    /\ targetWaitingState = 0
    /\ targetWorkingState = 0
    /\ request = "none"

\* what each channel of sphere.js consists of: its target, its handle and
\* its pending timers
WorkingView == <<targetWorkingState, workingTimeout, Pending("workingTimeout")>>
WaitingView == <<targetWaitingState, waitingTimeout, Pending("waitingTimeout")>>
ErrorView == <<targetErrorState, Pending("spikeReset")>>

\* C34 (SphereSpec): the channels are independent: a call of setWorkingState
\* and the running of the working timer leave the target and timers of the
\* waiting and error channels as they were, and likewise setWaitingState and
\* triggerSpike with their timers for the other two channels; no step
\* changes two channels.
C34_ChannelsIndependent ==
    [][ /\ lastStep'.op = "setWorkingState"
           => UNCHANGED <<WaitingView, ErrorView>>
        /\ lastStep'.op = "setWaitingState"
           => UNCHANGED <<WorkingView, ErrorView>>
        /\ lastStep'.op = "triggerSpike"
           => UNCHANGED <<WorkingView, WaitingView>>
        /\ WorkingView' # WorkingView => UNCHANGED <<WaitingView, ErrorView>>
        /\ WaitingView' # WaitingView => UNCHANGED <<WorkingView, ErrorView>>
        /\ ErrorView' # ErrorView => UNCHANGED <<WorkingView, WaitingView>>
      ]_vars

\* the working channel's pending activation has just been cancelled while
\* the waiting channel's timer and the error pulse's are pending
C34_Witness ==
    /\ lastStep = [op |-> "setWorkingState", arg |-> FALSE]
    /\ reqWorking.cancelled >= 0
    /\ targetWorkingState = 0
    /\ Pending("workingTimeout") = {}
    /\ Pending("waitingTimeout") # {}
    /\ Pending("spikeReset") # {}
    /\ targetErrorState = One

\* no channel is up or on its way up and nothing is left to bring one down
Quiescent ==
    /\ targetWorkingState = 0
    /\ targetWaitingState = 0
    /\ targetErrorState = 0
    /\ \A i \in 1..Len(timers) :
           timers[i].callback \notin
               { "workingTimeout", "waitingTimeout", "workTimer", "spikeReset" }

\* C33 (QuiesceSpec): once the log events have stopped and the request in
\* flight has settled, the targets of the working, waiting and error channels
\* come to 0 with no activation, auto-idle or error-reset timer pending, and
\* stay so.
C33_Quiesces == <>[]Quiescent

\* a request that saw both its channels go up has ended in an error after a
\* working line had come in, and all is down again
C33_Witness ==
    /\ Quiescent
    /\ timers = << >>
    /\ request = "none"
    /\ stimuli = "other"
    /\ nextId > 4
    /\ now > ActivationDelay

\* the step hides the monologue
Hides == monologueVisible /\ ~ monologueVisible'

\* C35 (MonologueSpec): a monologue is hidden no sooner than MonologueDelay
\* after it was last shown, and one shown during the request in flight is not
\* hidden before that request ends.
C35_MonologueStays ==
    [][ Hides => /\ now >= shown.at + MonologueDelay
                 /\ ~ (shown.inFlight /\ request = "awaiting") ]_vars

====
